---------------------------- MODULE Spec2Model ----------------------------
(***************************************************************************)
(* smooth-squircle: the squircle path generator (squircle-path.ts, held in *)
(* src/src/types.ts lines 114-284), the vanilla DOM binder applySquircle   *)
(* (dom.ts, held in src/unnamed/part_001), the custom element              *)
(* SmoothSquircleElement (src/src/web-component/index.ts) and the React    *)
(* hook useSquircle (src/src/react/useSquircle.ts).                        *)
(*                                                                         *)
(* Numbers.  JavaScript numbers are modelled as exact fixed-point values   *)
(* with denominator Unit = 2 * 1000: pixel sizes are whole numbers, the    *)
(* clamp divides them by two, and the Bezier table has three decimals, so  *)
(* every value the generator computes from whole-pixel inputs is a whole   *)
(* multiple of 1/Unit.  Binary rounding of IEEE doubles is not modelled.   *)
(*                                                                         *)
(* Strings.  A path string is the sequence of its draw commands, each a    *)
(* record [cmd, args] whose args are the decimal renderings of the         *)
(* numbers in the template literal.  The empty string is << >>.            *)
(***************************************************************************)
EXTENDS Integers, Sequences, FiniteSets, TLC

\* the module-level array squircleBezierApproximation as the calls find it: a
\* const binding to an array whose elements any code of the module could
\* assign
VARIABLE table

(***************************************************************************)
(* Bounds of the model.                                                    *)
(***************************************************************************)
MaxDim == 3
MaxRadius == 3
MaxSize == 6
MaxBorder == 1

(***************************************************************************)
(* Fixed-point numbers.                                                    *)
(***************************************************************************)
Unit == 2 * 1000

Px(n) == n * Unit

\* a three-decimal literal such as 0.473, given in thousandths
Dec(th) == th * (Unit \div 1000)

Mul(a, b) == (a * b) \div Unit

Half(a) == a \div 2

Abs(a) == IF a < 0 THEN -a ELSE a

\* Math.min of three numbers
MathMin3(a, b, c) ==
    LET ab == IF a <= b THEN a ELSE b
    IN  IF ab <= c THEN ab ELSE c

\* `${n}`: the decimal rendering of a number (sign, integer digits, fraction)
NumberToString(n) ==
    [neg |-> n < 0, int |-> Abs(n) \div Unit, frac |-> Abs(n) % Unit]

(***************************************************************************)
(* squircle-path.ts                                                        *)
(***************************************************************************)
squircleBezierApproximation ==
    << << <<Dec(300), Dec(0)>>,   <<Dec(473), Dec(0)>>,    <<Dec(619), Dec(39)>>   >>,
       << <<Dec(804), Dec(88)>>,  <<Dec(912), Dec(196)>>,  <<Dec(961), Dec(381)>>  >>,
       << <<Dec(1000), Dec(527)>>, <<Dec(1000), Dec(700)>>, <<Dec(1000), Dec(1000)>> >> >>

vecAdd(v1, v2) == <<v1[1] + v2[1], v1[2] + v2[2]>>

vecMul(v, k) == <<Mul(v[1], k), Mul(v[2], k)>>

rotBy90Reversed(v, k) ==
    LET x == v[1]
        y == v[2]
    IN  CASE k % 4 = 0 -> <<x, y>>
          [] k % 4 = 1 -> <<-y, x>>
          [] k % 4 = 2 -> <<-x, -y>>
          [] k % 4 = 3 -> <<y, -x>>
          [] OTHER -> <<x, y>>

rotBy90(v, k) ==
    LET x == v[1]
        y == v[2]
    IN  CASE k % 4 = 0 -> <<x, y>>
          [] k % 4 = 1 -> <<y, -x>>
          [] k % 4 = 2 -> <<-x, -y>>
          [] k % 4 = 3 -> <<-y, x>>
          [] OTHER -> <<x, y>>

\* the template-literal fragments that getSquirclePath appends
MoveTo(x, y) == [cmd |-> "M", args |-> <<NumberToString(x), NumberToString(y)>>]

LineTo(p) == [cmd |-> "L", args |-> <<NumberToString(p[1]), NumberToString(p[2])>>]

CurveTo(cA2, cB2, t2) ==
    [cmd |-> "C",
     args |-> <<NumberToString(cA2[1]), NumberToString(cA2[2]),
                NumberToString(cB2[1]), NumberToString(cB2[2]),
                NumberToString(t2[1]), NumberToString(t2[2])>>]

ClosePath == [cmd |-> "Z", args |-> << >>]

\* one "for (const [cA, cB, target] of squircleBezierApproximation)" loop
CornerCurvesTwo(start, k, clampedRadius) ==
    [i \in 1..(Len(table) - 1) |->
        CurveTo(vecAdd(start, vecMul(rotBy90(table[i][1], k), clampedRadius)),
                vecAdd(start, vecMul(rotBy90(table[i][2], k), clampedRadius)),
                vecAdd(start, vecMul(rotBy90(table[i][3], k), clampedRadius)))]

CornerCurvesTranslateFirst(start, k, clampedRadius) ==
    [i \in 1..Len(table) |->
        CurveTo(rotBy90(vecAdd(start, vecMul(table[i][1], clampedRadius)), k),
                rotBy90(vecAdd(start, vecMul(table[i][2], clampedRadius)), k),
                rotBy90(vecAdd(start, vecMul(table[i][3], clampedRadius)), k))]

CornerCurvesMirrored(start, k, clampedRadius) ==
    [i \in 1..Len(table) |->
        IF k = 2
        THEN CurveTo(vecAdd(start, vecMul(<<-table[i][1][1], table[i][1][2]>>, clampedRadius)),
                     vecAdd(start, vecMul(<<-table[i][2][1], table[i][2][2]>>, clampedRadius)),
                     vecAdd(start, vecMul(<<-table[i][3][1], table[i][3][2]>>, clampedRadius)))
        ELSE CurveTo(vecAdd(start, vecMul(rotBy90(table[i][1], k), clampedRadius)),
                     vecAdd(start, vecMul(rotBy90(table[i][2], k), clampedRadius)),
                     vecAdd(start, vecMul(rotBy90(table[i][3], k), clampedRadius)))]

CornerCurves(start, k, clampedRadius) ==
    [i \in 1..Len(table) |->
        LET seg == table[i]
            cA2 == vecAdd(start, vecMul(rotBy90(seg[1], k), clampedRadius))
            cB2 == vecAdd(start, vecMul(rotBy90(seg[2], k), clampedRadius))
            t2  == vecAdd(start, vecMul(rotBy90(seg[3], k), clampedRadius))
        IN  CurveTo(cA2, cB2, t2)]

\* Math.min(r, w / 2, h / 2)
ClampNoLimit(w, h, r) == r

ClampToLongSide(w, h, r) ==
    IF w >= h THEN MathMin3(r, Half(w), Half(w)) ELSE MathMin3(r, Half(h), Half(h))

ClampedRadius(w, h, r) == MathMin3(r, Half(w), Half(h))

\* the path text from "let path = `M ...`" to "path += ' Z'"
BuildNoClose(w, h, clampedRadius) ==
    LET left == 0
        top == 0
        right == w
        bottom == h
        startTR == <<right - clampedRadius, top>>
        startBR == <<right, bottom - clampedRadius>>
        startBL == <<left + clampedRadius, bottom>>
        startTL == <<left, top + clampedRadius>>
    IN  <<MoveTo(left + clampedRadius, top)>>
        \o <<LineTo(startTR)>> \o CornerCurves(startTR, 0, clampedRadius)
        \o <<LineTo(startBR)>> \o CornerCurves(startBR, 3, clampedRadius)
        \o <<LineTo(startBL)>> \o CornerCurves(startBL, 2, clampedRadius)
        \o <<LineTo(startTL)>> \o CornerCurves(startTL, 1, clampedRadius)

BuildSquare(w, h, clampedRadius) == BuildNoClose(w, w, clampedRadius) \o <<ClosePath>>

BuildPath(w, h, clampedRadius) == BuildNoClose(w, h, clampedRadius) \o <<ClosePath>>

\* the array after a call of getSquirclePath: the loops destructure its
\* entries and read them, and rotBy90, vecMul and vecAdd return new arrays
TableRotatedInPlace(t) == [i \in 1..Len(t) |-> [j \in 1..Len(t[i]) |-> rotBy90(t[i][j], 1)]]

TableAfter(t) == t

\* the body of getSquirclePath once w, h, r are normalised
PathNoZeroCheck(w, h, r) == BuildPath(w, h, ClampedRadius(w, h, r))

PathOf(w, h, r) ==
    IF w = 0 \/ h = 0 THEN << >>
    ELSE BuildPath(w, h, ClampedRadius(w, h, r))

\* JavaScript argument values: a number, an options object, or undefined
Num(n) == [t |-> "number", v |-> n]

Obj(o) == [t |-> "object", v |-> o]

Undefined == [t |-> "undefined", v |-> 0]

\* the overload adapter at the head of getSquirclePath
NormalizeSwapped(widthOrOptions, height, radius) ==
    IF widthOrOptions.t = "object"
    THEN [w |-> widthOrOptions.v.width, h |-> widthOrOptions.v.radius,
          r |-> widthOrOptions.v.height]
    ELSE [w |-> widthOrOptions.v, h |-> height.v, r |-> radius.v]

NormalizeArgs(widthOrOptions, height, radius) ==
    IF widthOrOptions.t = "object"
    THEN [w |-> widthOrOptions.v.width, h |-> widthOrOptions.v.height,
          r |-> widthOrOptions.v.radius]
    ELSE [w |-> widthOrOptions.v, h |-> height.v, r |-> radius.v]

getSquirclePath(widthOrOptions, height, radius) ==
    LET a == NormalizeArgs(widthOrOptions, height, radius)
    IN  PathOf(a.w, a.h, a.r)

\* the two call shapes
getSquirclePath3(width, height, radius) ==
    getSquirclePath(Num(width), Num(height), Num(radius))

getSquirclePathOptions(options) ==
    getSquirclePath(Obj(options), Undefined, Undefined)

\* the outcome of a call: the value it returns, or that it threw
Returns(value) == [value |-> value, threw |-> FALSE]

Throws == [value |-> FALSE, threw |-> TRUE]

\* CSS.supports('clip-path', 'path("M0 0")') in an environment that has it
CssSupports(env) == IF env.CSS = "throws" THEN Throws ELSE Returns(env.CSS = "true")

\* try { return call } catch { return false }
TryReturn(call) == IF call.threw THEN Returns(FALSE) ELSE call

\* supportsClipPath() as a call: env = [window, CSS], CSS one of "undefined",
\* "noSupports" (CSS.supports missing), "throws", "false", "true"
supportsClipPathUncaught(env) ==
    IF ~env.window THEN Returns(FALSE)
    ELSE IF env.CSS = "undefined" \/ env.CSS = "noSupports" THEN Returns(FALSE)
    ELSE CssSupports(env)

supportsClipPathCall(env) ==
    IF ~env.window THEN Returns(FALSE)
    ELSE IF env.CSS = "undefined" \/ env.CSS = "noSupports" THEN Returns(FALSE)
    ELSE TryReturn(CssSupports(env))

\* the boolean the binders get
supportsClipPath(env) ==
    IF ~env.window THEN FALSE
    ELSE IF env.CSS = "undefined" \/ env.CSS = "noSupports" THEN FALSE
    ELSE IF env.CSS = "throws" THEN FALSE
    ELSE env.CSS = "true"

\* hasResizeObserver()
hasResizeObserver(env) == env.window /\ env.ResizeObserver

\* hasResizeObserver() as a call: two typeof tests, nothing that can throw
hasResizeObserverNoWindowTest(env) == Returns(env.ResizeObserver)

hasResizeObserverCall(env) == Returns(env.window /\ env.ResizeObserver)

(***************************************************************************)
(* Strings as characters.  getSquircleSVG and getSquircleDataUri build     *)
(* text that is percent-encoded character by character, so here a string   *)
(* is the sequence of its characters.  PathChars gives the characters of a *)
(* path string from its draw commands.                                     *)
(***************************************************************************)
\* the printable ASCII characters, from code 32 (space) to code 126 (~); the
\* backslash (92) and the backtick (96) are written by name
Ascii ==
    <<" ", "!", "\"", "#", "$", "%", "&", "'", "(", ")", "*", "+", ",", "-",
      ".", "/", "0", "1", "2", "3", "4", "5", "6", "7", "8", "9", ":", ";",
      "<", "=", ">", "?", "@", "A", "B", "C", "D", "E", "F", "G", "H", "I",
      "J", "K", "L", "M", "N", "O", "P", "Q", "R", "S", "T", "U", "V", "W",
      "X", "Y", "Z", "[", "backslash", "]", "^", "_", "backtick", "a", "b", "c", "d", "e",
      "f", "g", "h", "i", "j", "k", "l", "m", "n", "o", "p", "q", "r", "s",
      "t", "u", "v", "w", "x", "y", "z", "{", "|", "}", "~">>

CharCode(c) == 31 + (CHOOSE i \in 1..Len(Ascii) : Ascii[i] = c)

DigitChars == <<"0", "1", "2", "3", "4", "5", "6", "7", "8", "9">>

HexDigits ==
    <<"0", "1", "2", "3", "4", "5", "6", "7", "8", "9", "A", "B", "C", "D", "E", "F">>

RECURSIVE Digits(_)
\* the decimal digits of a natural number
Digits(n) ==
    IF n < 10 THEN <<DigitChars[n + 1]>>
    ELSE Digits(n \div 10) \o <<DigitChars[(n % 10) + 1]>>

RECURSIVE FractionDigits(_, _)
\* the decimal digits of num / den, 0 <= num < den, without trailing zeros
FractionDigits(num, den) ==
    IF num = 0 THEN << >>
    ELSE <<DigitChars[((num * 10) \div den) + 1]>> \o FractionDigits((num * 10) % den, den)

\* the characters of `${n}`, from the rendering [neg, int, frac]
RenderedChars(s) ==
    (IF s.neg THEN <<"-">> ELSE << >>)
    \o Digits(s.int)
    \o (IF s.frac = 0 THEN << >> ELSE <<".">> \o FractionDigits(s.frac, Unit))

NumberChars(n) == RenderedChars(NumberToString(n))

RECURSIVE Flatten(_, _, _)
\* seqs[lo] \o ... \o seqs[hi]
Flatten(seqs, lo, hi) ==
    IF lo > hi THEN << >>
    ELSE IF lo = hi THEN seqs[lo]
    ELSE Flatten(seqs, lo, (lo + hi) \div 2) \o Flatten(seqs, ((lo + hi) \div 2) + 1, hi)

\* "M x y", "L x y", "C a b, c d, e f", "Z"
CommandChars(c) ==
    IF c.cmd = "C"
    THEN <<"C", " ">> \o RenderedChars(c.args[1]) \o <<" ">> \o RenderedChars(c.args[2])
         \o <<",", " ">> \o RenderedChars(c.args[3]) \o <<" ">> \o RenderedChars(c.args[4])
         \o <<",", " ">> \o RenderedChars(c.args[5]) \o <<" ">> \o RenderedChars(c.args[6])
    ELSE IF c.cmd = "Z" THEN <<"Z">>
    ELSE <<c.cmd, " ">> \o RenderedChars(c.args[1]) \o <<" ">> \o RenderedChars(c.args[2])

\* the characters of a path string: its commands, separated by one space
PathChars(path) ==
    Flatten([i \in 1..Len(path) |->
                (IF i = 1 THEN << >> ELSE <<" ">>) \o CommandChars(path[i])],
            1, Len(path))

\* the fixed text of getSquircleSVG's template literal
SvgOpen ==
    <<"<", "s", "v", "g", " ", "x", "m", "l", "n", "s", "=", "\"", "h", "t",
      "t", "p", ":", "/", "/", "w", "w", "w", ".", "w", "3", ".", "o", "r",
      "g", "/", "2", "0", "0", "0", "/", "s", "v", "g", "\"", " ", "w", "i",
      "d", "t", "h", "=", "\"">>

SvgHeight ==
    <<"\"", " ", "h", "e", "i", "g", "h", "t", "=", "\"">>

SvgPath ==
    <<"\"", ">", "<", "p", "a", "t", "h", " ", "d", "=", "\"">>

SvgClose ==
    <<"\"", " ", "f", "i", "l", "l", "=", "\"", "b", "l", "a", "c", "k",
      "\"", " ", "/", ">", "<", "/", "s", "v", "g", ">">>

\* getSquircleSVG(width, height, radius)
getSquircleSVGSwapped(width, height, radius) ==
    SvgOpen \o NumberChars(height) \o SvgHeight \o NumberChars(width) \o SvgPath
    \o PathChars(getSquirclePath3(width, height, radius)) \o SvgClose

getSquircleSVG(width, height, radius) ==
    SvgOpen \o NumberChars(width) \o SvgHeight \o NumberChars(height) \o SvgPath
    \o PathChars(getSquirclePath3(width, height, radius)) \o SvgClose

\* the characters encodeURIComponent leaves as they are
Unreserved ==
    {"A", "B", "C", "D", "E", "F", "G", "H", "I", "J", "K", "L", "M", "N", "O", "P", "Q", "R", "S", "T", "U", "V", "W", "X", "Y", "Z",
     "a", "b", "c", "d", "e", "f", "g", "h", "i", "j", "k", "l", "m", "n", "o", "p", "q", "r", "s", "t", "u", "v", "w", "x", "y", "z",
     "0", "1", "2", "3", "4", "5", "6", "7", "8", "9", "-", "_", ".", "!", "~", "*", "'", "(", ")"}

\* %XX, XX the character's code in upper-case hexadecimal
PercentEncode(c) ==
    <<"%", HexDigits[(CharCode(c) \div 16) + 1], HexDigits[(CharCode(c) % 16) + 1]>>

\* encodeURIComponent(str), for a string of ASCII characters
encodeFormComponent(str) ==
    Flatten([i \in 1..Len(str) |->
                IF str[i] \in Unreserved THEN <<str[i]>>
                ELSE IF str[i] = " " THEN <<"+">>
                ELSE PercentEncode(str[i])],
            1, Len(str))

encodeURIComponent(str) ==
    Flatten([i \in 1..Len(str) |->
                IF str[i] \in Unreserved THEN <<str[i]>> ELSE PercentEncode(str[i])],
            1, Len(str))

DataUriPrefix ==
    <<"d", "a", "t", "a", ":", "i", "m", "a", "g", "e", "/", "s", "v", "g",
      "+", "x", "m", "l", ",">>

\* getSquircleDataUri(width, height, radius)
getSquircleDataUri(width, height, radius) ==
    DataUriPrefix \o encodeURIComponent(getSquircleSVG(width, height, radius))

\* the value of a hexadecimal digit, -1 for any other character
HexValue(c) ==
    IF \E i \in 1..Len(HexDigits) : HexDigits[i] = c
    THEN (CHOOSE i \in 1..Len(HexDigits) : HexDigits[i] = c) - 1
    ELSE IF c \in {"a", "b", "c", "d", "e", "f"}
         THEN 9 + (CHOOSE i \in 1..6 : <<"a", "b", "c", "d", "e", "f">>[i] = c)
         ELSE -1

\* decodeURIComponent(str), for escapes of ASCII characters: every %XX is one
\* character, a % without two hexadecimal digits after it is a URIError
decodeURIComponent(str) ==
    LET n == Len(str)
        Malformed == \E i \in 1..n :
                        /\ str[i] = "%"
                        /\ \/ i + 2 > n
                           \/ HexValue(str[i + 1]) < 0
                           \/ HexValue(str[i + 2]) < 0
                           \/ (16 * HexValue(str[i + 1])) + HexValue(str[i + 2]) < 32
                           \/ (16 * HexValue(str[i + 1])) + HexValue(str[i + 2]) > 126
        IsHead(i) == ~((i > 1 /\ str[i - 1] = "%") \/ (i > 2 /\ str[i - 2] = "%"))
        heads == SelectSeq([i \in 1..n |-> i], IsHead)
    IN  IF Malformed THEN Throws
        ELSE Returns([k \in 1..Len(heads) |->
                        IF str[heads[k]] = "%"
                        THEN Ascii[(16 * HexValue(str[heads[k] + 1]))
                                   + HexValue(str[heads[k] + 2]) - 31]
                        ELSE str[heads[k]]])

(***************************************************************************)
(* The DOM as the binders use it.                                          *)
(*   A CSS value is a record [kind, path, num, color]; kind "" is the      *)
(*   unset value.  A host (the bound element, or the custom element with   *)
(*   its shadow root) is [offsetWidth, offsetHeight, style, children,      *)
(*   nodes]: children is the set of overlay nodes attached to it, nodes    *)
(*   the content of every overlay node that is attached or referenced.     *)
(***************************************************************************)
Null == 0

NoValue == [kind |-> "", path |-> << >>, num |-> NumberToString(0), color |-> ""]

\* `path('${pathData}')`
PathValue(pathData) == [NoValue EXCEPT !.kind = "path", !.path = pathData]

\* `${n}px`
PxValue(n) == [NoValue EXCEPT !.kind = "px", !.num = NumberToString(n)]

Keyword(k) == [NoValue EXCEPT !.kind = k]

\* `${borderWidth}px solid ${borderColor}`
SolidBorder(bw, color) ==
    [NoValue EXCEPT !.kind = "solid", !.num = NumberToString(bw), !.color = color]

NoStyle ==
    [position |-> NoValue, clipPath |-> NoValue, WebkitClipPath |-> NoValue,
     borderRadius |-> NoValue, overflow |-> NoValue, border |-> NoValue]

EmptyNodes == [n \in {} |-> NoValue]

NewHost(w, h) ==
    [offsetWidth |-> w, offsetHeight |-> h, style |-> NoStyle,
     children |-> {}, nodes |-> EmptyNodes]

\* document.createElementNS: a node that is neither attached nor referenced
FreshNode(host, held) ==
    CHOOSE n \in 1..(Cardinality(DOMAIN host.nodes) + 2) :
        n \notin DOMAIN host.nodes /\ n # held

\* the overlay's own styles and its <path> child
OverlayContent(pathData, bw, color) ==
    [top |-> PxValue(-Half(bw)), left |-> PxValue(-Half(bw)),
     grow |-> PxValue(bw), d |-> pathData, stroke |-> color,
     strokeWidth |-> NumberToString(bw * 2),
     translate |-> PxValue(Half(bw))]

PutNode(host, n, content) ==
    [host EXCEPT !.nodes = [m \in DOMAIN host.nodes \cup {n} |->
                              IF m = n THEN content ELSE host.nodes[m]]]

AppendChild(host, n) == [host EXCEPT !.children = @ \cup {n}]

\* node.parentNode is the host exactly while the node is attached
HasParent(host, n) == n \in host.children

RemoveChild(host, n) == [host EXCEPT !.children = @ \ {n}]

\* a node that is neither attached nor referenced any more is forgotten
DropNode(host, n) ==
    [host EXCEPT !.nodes = [m \in DOMAIN host.nodes \ {n} |-> host.nodes[m]]]

(***************************************************************************)
(* dom.ts: applySquircle                                                   *)
(*   b is the closure state of one applySquircle call:                     *)
(*   [isSupported, svgOverlay, observer, listening]                        *)
(***************************************************************************)
\* const { radius, borderWidth = 0, borderColor = 'currentColor' } = options
DomOptions(options) ==
    [radius |-> options.radius,
     borderWidth |-> IF "borderWidth" \in DOMAIN options THEN options.borderWidth ELSE 0,
     borderColor |-> IF "borderColor" \in DOMAIN options THEN options.borderColor
                     ELSE "currentColor"]

\* element.style.position / clipPath / WebkitClipPath of the precise branch
StylePreciseNoWebkit(host, pathData) ==
    [host EXCEPT !.style.position = Keyword("relative"),
                 !.style.clipPath = PathValue(pathData)]

StylePrecise(host, pathData) ==
    [host EXCEPT !.style.position = Keyword("relative"),
                 !.style.clipPath = PathValue(pathData),
                 !.style.WebkitClipPath = PathValue(pathData)]

\* createSquircleStyles(width, height, options): the style object it returns
createSquircleStyles(w, h, o, env) ==
    IF supportsClipPath(env) /\ w > 0 /\ h > 0
    THEN [NoStyle EXCEPT !.position = Keyword("relative"),
                         !.clipPath = PathValue(getSquirclePath3(w, h, o.radius)),
                         !.WebkitClipPath = PathValue(getSquirclePath3(w, h, o.radius))]
    ELSE [NoStyle EXCEPT !.position = Keyword("relative"),
                         !.borderRadius = PxValue(o.radius),
                         !.overflow = Keyword("hidden")]

\* svgOverlay = document.createElementNS(...); element.appendChild(svgOverlay)
DomCreateOverlay(host, b, content, n) ==
    [host |-> AppendChild(PutNode(host, n, content), n),
     b |-> [b EXCEPT !.svgOverlay = n]]

\* "if (borderWidth > 0) { if (!svgOverlay) {...} svgOverlay.innerHTML = ... }"
DomOverlayAlwaysCreate(host, b, o, content) ==
    IF o.borderWidth > 0
    THEN DomCreateOverlay(host, b, content, FreshNode(host, Null))
    ELSE [host |-> host, b |-> b]

DomOverlayCreateOnly(host, b, o, content) ==
    IF o.borderWidth > 0 /\ b.svgOverlay = Null
    THEN DomCreateOverlay(host, b, content, FreshNode(host, Null))
    ELSE [host |-> host, b |-> b]

DomOverlay(host, b, o, content) ==
    IF o.borderWidth > 0
    THEN IF b.svgOverlay = Null
         THEN DomCreateOverlay(host, b, content, FreshNode(host, Null))
         ELSE [host |-> PutNode(host, b.svgOverlay, content), b |-> b]
    ELSE [host |-> host, b |-> b]

DomPreciseWith(host, b, o, pathData) ==
    DomOverlay(StylePrecise(host, pathData), b, o,
               OverlayContent(pathData, o.borderWidth, o.borderColor))

\* the precise branch of updateStyles
DomPreciseOnce(host, b, o) ==
    IF host.style.clipPath.kind = "path"
    THEN [host |-> host, b |-> b]
    ELSE DomPreciseWith(host, b, o,
                        getSquirclePath3(host.offsetWidth, host.offsetHeight, o.radius))

DomPrecise(host, b, o) ==
    DomPreciseWith(host, b, o,
                   getSquirclePath3(host.offsetWidth, host.offsetHeight, o.radius))

FallbackBorder(host, o) ==
    IF o.borderWidth > 0
    THEN [host EXCEPT !.style.border = SolidBorder(o.borderWidth, o.borderColor)]
    ELSE host

\* the fallback branch of updateStyles
DomFallback(host, b, o) ==
    [host |-> FallbackBorder([host EXCEPT !.style.position = Keyword("relative"),
                                          !.style.borderRadius = PxValue(o.radius),
                                          !.style.overflow = Keyword("hidden")], o),
     b |-> b]

\* the mode a pass of updateStyles runs in: the flag captured at the call
DomModeRequeried(b, env) == supportsClipPath(env)

DomMode(b, env) == b.isSupported

Skipped(host, b) == [host |-> host, b |-> b, applied |-> FALSE]

Applied(res) == [host |-> res.host, b |-> res.b, applied |-> TRUE]

\* updateStyles(): [host, b, applied]
DomUpdateStylesWidthOnly(host, b, o, env) ==
    IF host.offsetWidth = 0
    THEN Skipped(host, b)
    ELSE Applied(IF DomMode(b, env) THEN DomPrecise(host, b, o)
                                    ELSE DomFallback(host, b, o))

DomUpdateStyles(host, b, o, env) ==
    IF host.offsetWidth = 0 \/ host.offsetHeight = 0
    THEN Skipped(host, b)
    ELSE Applied(IF DomMode(b, env) THEN DomPrecise(host, b, o)
                                    ELSE DomFallback(host, b, o))

\* the registrations made after the initial update
DomRegisterNoWindow(b, env) ==
    [b EXCEPT !.observer = IF hasResizeObserver(env) THEN "observing" ELSE "none"]

DomRegister(b, env) ==
    [b EXCEPT !.observer = IF hasResizeObserver(env) THEN "observing" ELSE "none",
              !.listening = TRUE]

\* observer?.disconnect(); window.removeEventListener('resize', updateStyles)
DomUnregister(b) ==
    [b EXCEPT !.observer = IF @ = "none" THEN "none" ELSE "disconnected",
              !.listening = FALSE]

\* the returned cleanup function: [host, b, threw]
DomCleanupUnguarded(host, b) ==
    IF b.svgOverlay # Null
    THEN IF HasParent(host, b.svgOverlay)
         THEN [host |-> RemoveChild(host, b.svgOverlay), b |-> DomUnregister(b), threw |-> FALSE]
         ELSE [host |-> host, b |-> DomUnregister(b), threw |-> TRUE]
    ELSE [host |-> host, b |-> DomUnregister(b), threw |-> FALSE]

DomCleanup(host, b) ==
    IF b.svgOverlay # Null /\ HasParent(host, b.svgOverlay)
    THEN [host |-> RemoveChild(host, b.svgOverlay), b |-> DomUnregister(b), threw |-> FALSE]
    ELSE [host |-> host, b |-> DomUnregister(b), threw |-> FALSE]

(***************************************************************************)
(* web-component/index.ts: SmoothSquircleElement                           *)
(*   attrs maps "radius", "border-width", "border-color" to the            *)
(*   attribute's string, NullAttr when the attribute is absent.            *)
(*   b is [isSupported, svgOverlay, observer, listening]; the host's       *)
(*   children are the overlay nodes in the shadow root.                    *)
(***************************************************************************)
NullAttr == "<null>"

NaN == [nan |-> TRUE, v |-> 0]

\* Number(value) of an attribute value: null and "" give 0, decimal digits
\* their value, anything else NaN
ToNumber(str) ==
    IF str = NullAttr \/ str = "" THEN [nan |-> FALSE, v |-> 0]
    ELSE IF \E n \in 0..(MaxRadius + MaxBorder + 1) : ToString(n) = str
         THEN [nan |-> FALSE,
               v |-> Px(CHOOSE n \in 0..(MaxRadius + MaxBorder + 1) : ToString(n) = str)]
         ELSE NaN

\* number || fallback
NumberOr(n, fallback) == IF n.nan \/ n.v = 0 THEN fallback ELSE n.v

WC_DEFAULT_RADIUS == 20

\* get radius()
WcRadius(attrs) == NumberOr(ToNumber(attrs["radius"]), Px(WC_DEFAULT_RADIUS))

\* get borderWidth()
WcBorderWidth(attrs) == NumberOr(ToNumber(attrs["border-width"]), 0)

\* get borderColor()
WcBorderColor(attrs) ==
    IF attrs["border-color"] = NullAttr \/ attrs["border-color"] = ""
    THEN "currentColor" ELSE attrs["border-color"]

\* render(): shadowRoot.innerHTML = ... replaces every child of the shadow root
WcRender(host, b) ==
    [host EXCEPT !.children = {},
                 !.nodes = [m \in DOMAIN host.nodes \cap {b.svgOverlay} |-> host.nodes[m]]]

\* the creation branch of updateBorderOverlay
WcCreateOverlay(host, b, n) ==
    [host |-> AppendChild(PutNode(host, n, NoValue), n),
     b |-> [b EXCEPT !.svgOverlay = n]]

WcEnsureOverlay(host, b) ==
    IF b.svgOverlay = Null
    THEN WcCreateOverlay(host, b, FreshNode(host, Null))
    ELSE [host |-> host, b |-> b]

WcWriteOverlay(hb, content) ==
    [host |-> PutNode(hb.host, hb.b.svgOverlay, content), b |-> hb.b, threw |-> FALSE]

\* updateBorderOverlay(pathData): [host, b, threw]
updateBorderOverlay(host, b, attrs, pathData) ==
    WcWriteOverlay(WcEnsureOverlay(host, b),
                   OverlayContent(pathData, WcBorderWidth(attrs), WcBorderColor(attrs)))

\* removeBorderOverlay(): [host, b, threw]; removeChild of a node that is not
\* a child of the shadow root throws NotFoundError
removeBorderOverlay(host, b) ==
    IF b.svgOverlay # Null
    THEN IF HasParent(host, b.svgOverlay)
         THEN [host |-> DropNode(RemoveChild(host, b.svgOverlay), b.svgOverlay),
               b |-> [b EXCEPT !.svgOverlay = Null], threw |-> FALSE]
         ELSE [host |-> host, b |-> b, threw |-> TRUE]
    ELSE [host |-> host, b |-> b, threw |-> FALSE]

\* this.style.clipPath = ...; this.style.WebkitClipPath = ...
WcStylePreciseNoWebkit(host, pathData) ==
    [host EXCEPT !.style.clipPath = PathValue(pathData)]

WcStylePrecise(host, pathData) ==
    [host EXCEPT !.style.clipPath = PathValue(pathData),
                 !.style.WebkitClipPath = PathValue(pathData)]

WcPreciseWith(host, b, attrs, pathData) ==
    IF WcBorderWidth(attrs) > 0
    THEN updateBorderOverlay(WcStylePrecise(host, pathData), b, attrs, pathData)
    ELSE removeBorderOverlay(WcStylePrecise(host, pathData), b)

\* the precise branch of updateSquircle: [host, b, threw]
WcPrecise(host, b, attrs) ==
    WcPreciseWith(host, b, attrs,
                  getSquirclePath3(host.offsetWidth, host.offsetHeight, WcRadius(attrs)))

WcFallbackBorder(host, attrs) ==
    IF WcBorderWidth(attrs) > 0
    THEN [host EXCEPT !.style.border = SolidBorder(WcBorderWidth(attrs), WcBorderColor(attrs))]
    ELSE host

\* the fallback branch of updateSquircle: [host, b, threw]
WcFallback(host, b, attrs) ==
    [host |-> WcFallbackBorder([host EXCEPT !.style.borderRadius = PxValue(WcRadius(attrs)),
                                            !.style.overflow = Keyword("hidden")], attrs),
     b |-> b, threw |-> FALSE]

\* the mode a pass of updateSquircle runs in: the field set in the constructor
WcModeRequeried(b, env) == supportsClipPath(env)

WcMode(b, env) == b.isSupported

WcSkipped(host, b) == [host |-> host, b |-> b, applied |-> FALSE, threw |-> FALSE]

WcApplied(res) == [host |-> res.host, b |-> res.b, applied |-> TRUE, threw |-> res.threw]

\* updateSquircle(): [host, b, applied, threw]
updateSquircle(host, b, attrs, env) ==
    IF host.offsetWidth = 0 \/ host.offsetHeight = 0
    THEN WcSkipped(host, b)
    ELSE WcApplied(IF WcMode(b, env) THEN WcPrecise(host, b, attrs)
                                     ELSE WcFallback(host, b, attrs))

\* the rest of connectedCallback, not reached when updateSquircle threw
WcRegisterNoWindow(b, env) ==
    [b EXCEPT !.observer = IF hasResizeObserver(env) THEN "observing" ELSE @]

WcRegister(b, env) ==
    [b EXCEPT !.observer = IF hasResizeObserver(env) THEN "observing" ELSE @,
              !.listening = TRUE]

WcConnected(upd, env, n) ==
    [host |-> upd.host, b |-> IF upd.threw THEN upd.b ELSE WcRegister(upd.b, env),
     applied |-> upd.applied, threw |-> upd.threw, passes |-> n]

\* connectedCallback(): [host, b, applied, threw, passes]
connectedNoInitialUpdate(host, b, attrs, env) ==
    WcConnected(WcSkipped(WcRender(host, b), b), env, 0)

connectedCallback(host, b, attrs, env) ==
    WcConnected(updateSquircle(WcRender(host, b), b, attrs, env), env, 1)

\* disconnectedCallback(): the new b
disconnectedCallback(b) ==
    [b EXCEPT !.observer = IF @ = "none" THEN "none" ELSE "disconnected",
              !.listening = FALSE]

WcNoPass(host, b) ==
    [host |-> host, b |-> b, applied |-> FALSE, threw |-> FALSE, passes |-> 0]

WcPass(upd) ==
    [host |-> upd.host, b |-> upd.b, applied |-> upd.applied, threw |-> upd.threw,
     passes |-> 1]

\* attributeChangedCallback(_name, oldValue, newValue), attrs being the
\* attributes after the change: [host, b, applied, threw, passes]
attributeChangedAlways(host, b, attrs, env, oldValue, newValue) ==
    WcPass(updateSquircle(host, b, attrs, env))

attributeChangedCallback(host, b, attrs, env, oldValue, newValue) ==
    IF oldValue # newValue
    THEN WcPass(updateSquircle(host, b, attrs, env))
    ELSE WcNoPass(host, b)

(***************************************************************************)
(* react/useSquircle.ts: useSquircle                                       *)
(*   props is the options argument plus "fresh": whether the caller builds *)
(*   the radius object anew on every render.  b holds the hook's state:    *)
(*   [isSupported, pathData, currentRadius, isHydrated, ref, observer,     *)
(*   listening, svgOverlay]; ref is whether containerRef.current is set.   *)
(***************************************************************************)
DEFAULT_MOBILE_BREAKPOINT == 769

DEFAULT_RADIUS_MOBILE == 30

DEFAULT_RADIUS_DESKTOP == 40

\* a radius prop: a number, or a ResponsiveRadius object { mobile, desktop }
Fixed(n) == [t |-> "number", v |-> n, mobile |-> 0, desktop |-> 0]

Responsive(m, d) == [t |-> "object", v |-> 0, mobile |-> m, desktop |-> d]

DEFAULT_RADIUS == Responsive(Px(DEFAULT_RADIUS_MOBILE), Px(DEFAULT_RADIUS_DESKTOP))

DEFAULT_RESOLVED_RADIUS == 30

\* const { radius = DEFAULT_RADIUS, mobileBreakpoint = DEFAULT_MOBILE_BREAKPOINT } = options
HookOptions(props) ==
    [radius |-> IF "radius" \in DOMAIN props THEN props.radius ELSE DEFAULT_RADIUS,
     mobileBreakpoint |-> IF "mobileBreakpoint" \in DOMAIN props THEN props.mobileBreakpoint
                          ELSE DEFAULT_MOBILE_BREAKPOINT,
     fresh |-> IF "fresh" \in DOMAIN props THEN props.fresh ELSE FALSE]

\* useState(typeof radius === 'number' ? radius : radius.desktop)
InitialRadius(o) == IF o.radius.t = "number" THEN o.radius.v ELSE o.radius.desktop

\* the radius resolution inside updatePath
ResolveRadiusStrict(o, env) ==
    IF o.radius.t = "number" THEN o.radius.v
    ELSE IF o.radius.t = "object"
         THEN IF env.innerWidth < o.mobileBreakpoint
              THEN o.radius.mobile ELSE o.radius.desktop
         ELSE Px(DEFAULT_RESOLVED_RADIUS)

ResolveRadius(o, env) ==
    IF o.radius.t = "number" THEN o.radius.v
    ELSE IF o.radius.t = "object"
         THEN IF env.innerWidth <= o.mobileBreakpoint
              THEN o.radius.mobile ELSE o.radius.desktop
         ELSE Px(DEFAULT_RESOLVED_RADIUS)

HookSkipped(b) == [b |-> b, applied |-> FALSE]

HookSet(b, resolvedRadius, path) ==
    [b |-> [b EXCEPT !.currentRadius = resolvedRadius, !.pathData = path],
     applied |-> TRUE]

\* updatePath(): [b, applied]
updatePath(host, b, o, env) ==
    IF ~b.ref THEN HookSkipped(b)
    ELSE IF host.offsetWidth = 0 \/ host.offsetHeight = 0 THEN HookSkipped(b)
    ELSE HookSet(b, ResolveRadius(o, env),
                 getSquirclePath3(host.offsetWidth, host.offsetHeight, ResolveRadius(o, env)))

\* the style memo: what the hook returns as style
HookStyle(b) ==
    IF b.isSupported /\ b.pathData # << >>
    THEN [NoStyle EXCEPT !.position = Keyword("relative"),
                         !.clipPath = PathValue(b.pathData),
                         !.WebkitClipPath = PathValue(b.pathData)]
    ELSE [NoStyle EXCEPT !.position = Keyword("relative"),
                         !.borderRadius = PxValue(b.currentRadius),
                         !.overflow = Keyword("hidden")]

(***************************************************************************)
(* react/Squircle.tsx: the component that calls useSquircle and renders    *)
(* the surface.  What it renders is a function of its props and of the     *)
(* hook's state: the merged style, and the stroke overlay as a child.      *)
(***************************************************************************)
\* borderWidth = 0, borderColor = 'currentColor'
SquircleProps(props) ==
    [borderWidth |-> IF "borderWidth" \in DOMAIN props THEN props.borderWidth ELSE 0,
     borderColor |-> IF "borderColor" \in DOMAIN props THEN props.borderColor
                     ELSE "currentColor"]

\* const shouldUseClipPath = isSupported && pathData
shouldUseClipPath(b) == b.isSupported /\ b.pathData # << >>

\* combinedStyle, with the CSS border of fallback mode
SquircleStyle(b, p) ==
    IF ~shouldUseClipPath(b) /\ p.borderWidth > 0
    THEN [HookStyle(b) EXCEPT !.border = SolidBorder(p.borderWidth, p.borderColor)]
    ELSE HookStyle(b)

\* {shouldUseClipPath && borderWidth > 0 && (<svg ...>)}
SquircleShowsOverlayAlways(b, p) == p.borderWidth > 0

SquircleShowsOverlay(b, p) == shouldUseClipPath(b) /\ p.borderWidth > 0

\* the rendered surface: React keeps one svg element while it stays rendered
SquircleRender(host, b, p) ==
    [host EXCEPT !.style = SquircleStyle(b, p),
                 !.children = IF SquircleShowsOverlay(b, p) THEN {1} ELSE {},
                 !.nodes = IF SquircleShowsOverlay(b, p)
                           THEN [n \in {1} |->
                                   OverlayContent(b.pathData, p.borderWidth, p.borderColor)]
                           ELSE EmptyNodes]

\* the registrations of one run of the layout effect: observer and listening
\* are the observer and the listener of this run, observers and listeners
\* count the ResizeObservers observing the surface and the resize listeners
\* on window that runs of this instance's effect have left registered
HookRegister(b, env) ==
    [b EXCEPT !.observer = IF hasResizeObserver(env)
                           THEN (IF b.ref THEN "observing" ELSE "idle")
                           ELSE "none",
              !.listening = TRUE,
              !.observers = IF hasResizeObserver(env) /\ b.ref THEN @ + 1 ELSE @,
              !.listeners = @ + 1]

\* the effect's cleanup: it disconnects the observer and removes the
\* listener of the run that returned it
HookCleanupListenerOnly(b) ==
    [b EXCEPT !.listening = FALSE,
              !.listeners = IF b.listening THEN @ - 1 ELSE @]

HookCleanup(b) ==
    [b EXCEPT !.observer = IF @ = "none" THEN "none" ELSE "disconnected",
              !.listening = FALSE,
              !.observers = IF b.observer = "observing" THEN @ - 1 ELSE @,
              !.listeners = IF b.listening THEN @ - 1 ELSE @]

\* one run of the layout effect body: [b, applied, passes]
HookEffect(upd, env, n) ==
    [b |-> HookRegister(upd.b, env), applied |-> upd.applied, passes |-> n]

\* the useState values: a render is scheduled when a setter changes one
HookState(b) == <<b.pathData, b.currentRadius, b.isHydrated>>

\* a render caused by a state change: with a radius object built anew the
\* dependency list differs, so the effect is cleaned up and runs again
HookRerender(host, before, res, o, env) ==
    IF o.fresh /\ o.radius.t = "object" /\ HookState(res.b) # HookState(before)
    THEN HookEffect(updatePath(host, HookCleanup(res.b), o, env), env, res.passes + 1)
    ELSE res

\* one call of updatePath by a notification: [b, applied, passes]
HookPass(upd) == [b |-> upd.b, applied |-> upd.applied, passes |-> 1]

\* the handler of a notification: updatePath, then the render it causes
HookNotified(host, b, o, env) ==
    HookRerender(host, b, HookPass(updatePath(host, b, o, env)), o, env)

\* the state of the first render
HookFirst(o, e, ref) ==
    [isSupported |-> supportsClipPath(e), pathData |-> << >>,
     currentRadius |-> InitialRadius(o), isHydrated |-> FALSE, ref |-> ref,
     observer |-> "none", listening |-> FALSE, svgOverlay |-> Null,
     observers |-> 0, listeners |-> 0]

\* a run of the layout effect (at mount, or after its dependencies changed)
\* and the render it causes
HookMounted(host, first, o, env) ==
    HookRerender(host, first, HookEffect(updatePath(host, first, o, env), env, 1), o, env)

(***************************************************************************)
(* State.                                                                  *)
(*   table   : the array squircleBezierApproximation (declared above)      *)
(*   genArgs, genOut : a caller of the generator: the arguments it holds   *)
(*                     and the strings its calls have returned so far      *)
(*   kind    : which binder this behaviour runs: "dom" (applySquircle),    *)
(*             "wc" (SmoothSquircleElement), "hook" (useSquircle),         *)
(*             "none" under SpecGen                                        *)
(*   phase   : the binding's lifecycle position                            *)
(*   env     : the hosting environment [window, CSS, ResizeObserver,       *)
(*             innerWidth]                                                 *)
(*   host    : the bound surface                                           *)
(*   opts    : the options / attributes / props the binder was given       *)
(*   b       : the binder's own fields                                     *)
(*   lastOp, passes : what the last step was and how many times it ran the *)
(*             synchronization routine                                     *)
(*   threw   : some handler has thrown                                     *)
(***************************************************************************)
VARIABLES genArgs, genOut, kind, phase, env, host, opts, b, lastOp, passes, threw

genVars == <<genArgs, genOut, table>>

binderVars == <<kind, phase, env, host, opts, b, lastOp, passes, threw>>

vars == <<genArgs, genOut, table, kind, phase, env, host, opts, b, lastOp, passes, threw>>

Dims == 0..MaxDim

Radii == 0..MaxRadius

\* surface sizes <<width, height>> the layout can produce: two sizes with
\* a width and a height, and the sizes without one of them (both for the DOM
\* binder, no width for the custom element, no height for the hook)
Surfaces(k) ==
    {<<Px(MaxSize \div 2), Px(MaxSize)>>, <<Px(MaxSize), Px(MaxSize)>>}
    \cup (IF k \in {"dom", "wc"} THEN {<<Px(0), Px(MaxSize)>>} ELSE {})
    \cup (IF k \in {"dom", "hook"} THEN {<<Px(MaxSize), Px(0)>>} ELSE {})

Resized(h, size) == [h EXCEPT !.offsetWidth = size[1], !.offsetHeight = size[2]]

BinderRadii == {Px(1), Px(MaxRadius)}

BorderWidths == {Px(MaxBorder)}

GenIdle ==
    /\ genArgs = [width |-> 0, height |-> 0, radius |-> 0, radius2 |-> 0]
    /\ genOut = [c \in {} |-> << >>]
    /\ table = squircleBezierApproximation

NoBinding == [isSupported |-> FALSE, svgOverlay |-> Null, observer |-> "none", listening |-> FALSE]

BinderIdle ==
    /\ kind = "none"
    /\ phase = "idle"
    /\ env = [window |-> FALSE, CSS |-> "undefined", ResizeObserver |-> FALSE, innerWidth |-> 0]
    /\ host = NewHost(0, 0)
    /\ opts = [radius |-> 0]
    /\ b = NoBinding
    /\ lastOp = "init"
    /\ passes = 0
    /\ threw = FALSE

(***************************************************************************)
(* A caller of the pure generator: the inputs are drawn in GenInit, each   *)
(* action makes one call and keeps the returned string.                    *)
(***************************************************************************)
GenInit ==
    /\ BinderIdle
    /\ genArgs \in [width : {Px(n) : n \in Dims}, height : {Px(n) : n \in Dims},
                     radius : {Px(n) : n \in Radii}, radius2 : {Px(n) : n \in Radii}]
    /\ genOut = [c \in {} |-> << >>]
    /\ table = squircleBezierApproximation

Returned(call) == call \in DOMAIN genOut

Keep(call, value) == genOut' = [c \in DOMAIN genOut \cup {call} |->
                                  IF c = call THEN value ELSE genOut[c]]

\* getSquirclePath(width, height, radius)
CallPositional ==
    /\ ~Returned("positional")
    /\ Keep("positional", getSquirclePath3(genArgs.width, genArgs.height, genArgs.radius))
    /\ table' = TableAfter(table)
    /\ UNCHANGED genArgs
    /\ UNCHANGED binderVars

\* getSquirclePath({ width, height, radius })
CallOptions ==
    /\ ~Returned("options")
    /\ Keep("options", getSquirclePathOptions(
            [width |-> genArgs.width, height |-> genArgs.height, radius |-> genArgs.radius]))
    /\ table' = TableAfter(table)
    /\ UNCHANGED genArgs
    /\ UNCHANGED binderVars

\* getSquirclePath(width, height, radius2): the same size, a second radius
CallPositional2 ==
    /\ ~Returned("positional2")
    /\ Keep("positional2", getSquirclePath3(genArgs.width, genArgs.height, genArgs.radius2))
    /\ table' = TableAfter(table)
    /\ UNCHANGED genArgs
    /\ UNCHANGED binderVars

GenNext == CallPositional \/ CallOptions \/ CallPositional2

SpecGen == GenInit /\ [][GenNext]_vars

(***************************************************************************)
(* Claims about the generator (checked under SpecGen).                     *)
(***************************************************************************)
ZeroDim == genArgs.width = 0 \/ genArgs.height = 0

\* C6: getSquirclePath returns exactly the empty string whenever width = 0
\* or height = 0, whatever the radius, in the positional and in the record
\* call form.
C6_EmptyOnZeroDimension ==
    ZeroDim =>
        /\ (Returned("positional") => genOut["positional"] = << >>)
        /\ (Returned("options") => genOut["options"] = << >>)
        /\ (Returned("positional2") => genOut["positional2"] = << >>)

C6_Witness ==
    /\ ZeroDim
    /\ genArgs.radius > 0
    /\ Returned("positional") /\ Returned("options")

\* half the shorter side, written out independently of the generator
HalfShortSide ==
    IF genArgs.width <= genArgs.height THEN genArgs.width \div 2 ELSE genArgs.height \div 2

\* C7: the contour is built with min(radius, width/2, height/2): any two radii
\* at or above min(width/2, height/2) give the same string, and its move-to
\* point is (min(width/2, height/2), 0).
C7_ClampToHalfShortSide ==
    (/\ ~ZeroDim
     /\ genArgs.radius >= HalfShortSide
     /\ genArgs.radius2 >= HalfShortSide
     /\ Returned("positional") /\ Returned("positional2")) =>
        /\ genOut["positional"] = genOut["positional2"]
        /\ Len(genOut["positional"]) > 0
        /\ genOut["positional"][1].cmd = "M"
        /\ genOut["positional"][1].args =
              <<[neg |-> FALSE, int |-> HalfShortSide \div Unit, frac |-> HalfShortSide % Unit],
                [neg |-> FALSE, int |-> 0, frac |-> 0]>>

C7_Witness ==
    /\ ~ZeroDim
    /\ genArgs.radius > HalfShortSide
    /\ genArgs.radius2 > genArgs.radius
    /\ genArgs.width < genArgs.height
    /\ genArgs.width % (2 * Unit) # 0
    /\ Returned("positional") /\ Returned("positional2")

\* C8: for width > 0, height > 0 and radius >= 0 the output begins with a
\* move-to command (M) and ends with a close command (Z).
C8_MoveToFirstCloseLast ==
    \A c \in DOMAIN genOut :
        ~ZeroDim =>
            /\ Len(genOut[c]) >= 2
            /\ genOut[c][1].cmd = "M"
            /\ genOut[c][Len(genOut[c])].cmd = "Z"

C8_Witness ==
    /\ ~ZeroDim
    /\ genArgs.radius = 0
    /\ genArgs.radius2 > 0
    /\ Returned("positional") /\ Returned("positional2")

\* C9: the record form and the positional form return the same string for
\* every triple of inputs, zero dimensions and radii above the clamp ceiling
\* included.
C9_RecordFormEqualsPositional ==
    (Returned("positional") /\ Returned("options")) =>
        genOut["positional"] = genOut["options"]

C9_Witness ==
    /\ Returned("positional") /\ Returned("options")
    /\ ~ZeroDim
    /\ genArgs.radius > HalfShortSide
    /\ genArgs.height # genArgs.radius
    /\ Len(genOut["options"]) > 0

(***************************************************************************)
(* A caller of the capability queries, in every kind of environment: with  *)
(* and without window, CSS, CSS.supports and ResizeObserver.  The globals  *)
(* can change between calls (core.test.ts deletes and restores             *)
(* globalThis.window).  Each call is kept with the environment it ran in.  *)
(***************************************************************************)
CapEnvs ==
    [window : BOOLEAN, CSS : {"undefined", "noSupports", "throws", "false", "true"},
     ResizeObserver : BOOLEAN, innerWidth : {0}]

CapInit ==
    /\ GenIdle
    /\ kind = "none"
    /\ phase = "idle"
    /\ env \in CapEnvs
    /\ host = NewHost(0, 0)
    /\ opts = [radius |-> 0]
    /\ b = NoBinding
    /\ lastOp = "init"
    /\ passes = 0
    /\ threw = FALSE

CapIdle == UNCHANGED <<genArgs, table, kind, phase, host, opts, b, lastOp, passes, threw>>

Queried(call, e) == [env |-> e, value |-> call.value, threw |-> call.threw]

\* supportsClipPath()
QuerySupportsClipPath ==
    /\ Keep("supportsClipPath", Queried(supportsClipPathCall(env), env))
    /\ UNCHANGED env
    /\ CapIdle

\* hasResizeObserver()
QueryHasResizeObserver ==
    /\ Keep("hasResizeObserver", Queried(hasResizeObserverCall(env), env))
    /\ UNCHANGED env
    /\ CapIdle

\* a global is defined, deleted or replaced
GlobalsChange ==
    /\ \E e \in CapEnvs : e # env /\ env' = e
    /\ UNCHANGED genOut
    /\ CapIdle

CapNext == QuerySupportsClipPath \/ QueryHasResizeObserver \/ GlobalsChange

SpecCap == CapInit /\ [][CapNext]_vars

\* C12: neither capability query throws; supportsClipPath() is false without
\* window, without CSS, without CSS.supports and when CSS.supports throws;
\* hasResizeObserver() is false without window and without ResizeObserver.
C12_QueriesNeverThrow ==
    /\ Returned("supportsClipPath") =>
          \E q \in {genOut["supportsClipPath"]} :
              /\ ~q.threw
              /\ (~q.env.window \/ q.env.CSS \in {"undefined", "noSupports", "throws"})
                    => q.value = FALSE
    /\ Returned("hasResizeObserver") =>
          \E q \in {genOut["hasResizeObserver"]} :
              /\ ~q.threw
              /\ (~q.env.window \/ ~q.env.ResizeObserver) => q.value = FALSE

C12_Witness ==
    /\ Returned("supportsClipPath") /\ Returned("hasResizeObserver")
    /\ genOut["supportsClipPath"].env.window
    /\ genOut["supportsClipPath"].env.CSS = "throws"
    /\ ~genOut["hasResizeObserver"].env.window
    /\ genOut["hasResizeObserver"].env.ResizeObserver
    /\ genOut["hasResizeObserver"].env.CSS = "true"

(***************************************************************************)
(* A caller of getSquircleSVG and getSquircleDataUri.                      *)
(***************************************************************************)
DocInit ==
    /\ BinderIdle
    /\ genArgs \in [width : {Px(n) : n \in Dims}, height : {Px(n) : n \in Dims},
                     radius : {Px(n) : n \in Radii}, radius2 : {0}]
    /\ genOut = [c \in {} |-> << >>]
    /\ table = squircleBezierApproximation

\* getSquircleSVG(width, height, radius)
CallSVG ==
    /\ ~Returned("svg")
    /\ Keep("svg", getSquircleSVG(genArgs.width, genArgs.height, genArgs.radius))
    /\ table' = TableAfter(table)
    /\ UNCHANGED genArgs
    /\ UNCHANGED binderVars

\* getSquircleDataUri(width, height, radius)
CallDataUri ==
    /\ ~Returned("dataUri")
    /\ Keep("dataUri", getSquircleDataUri(genArgs.width, genArgs.height, genArgs.radius))
    /\ table' = TableAfter(table)
    /\ UNCHANGED genArgs
    /\ UNCHANGED binderVars

DocNext == CallSVG \/ CallDataUri

SpecDoc == DocInit /\ [][DocNext]_vars

\* the positions at which the text key occurs in doc
Occurrences(doc, key) ==
    {i \in 1..(Len(doc) - Len(key) + 1) : SubSeq(doc, i, i + Len(key) - 1) = key}

First(positions) == CHOOSE i \in positions : \A j \in positions : i <= j

\* the value of the first attribute name="..." in doc
AttrValue(doc, name) ==
    LET key == <<" ">> \o name \o <<"=", "\"">>
        from == First(Occurrences(doc, key)) + Len(key)
        to == First({j \in from..Len(doc) : doc[j] = "\""})
    IN  SubSeq(doc, from, to - 1)

\* C13: getSquircleSVG(w, h, r) is one svg element, from "<svg " to "</svg>",
\* whose width and height attributes are w and h, and inside it one path
\* element with fill="black" whose d attribute is exactly
\* getSquirclePath(w, h, r), the empty string when w or h is 0.
C13_SvgWrapsThePath ==
    Returned("svg") =>
        \E doc \in {genOut["svg"]} :
            /\ Occurrences(doc, <<"<", "s", "v", "g", " ">>) = {1}
            /\ Occurrences(doc, <<"<", "/", "s", "v", "g", ">">>) = {Len(doc) - 5}
            /\ Cardinality(Occurrences(doc, <<"<", "p", "a", "t", "h", " ">>)) = 1
            /\ Cardinality(Occurrences(doc, <<" ", "d", "=">>)) = 1
            /\ First(Occurrences(doc, <<" ", "d", "=">>))
                  > First(Occurrences(doc, <<"<", "p", "a", "t", "h", " ">>))
            /\ AttrValue(doc, <<"w", "i", "d", "t", "h">>) = NumberChars(genArgs.width)
            /\ AttrValue(doc, <<"h", "e", "i", "g", "h", "t">>) = NumberChars(genArgs.height)
            /\ AttrValue(doc, <<"f", "i", "l", "l">>) = <<"b", "l", "a", "c", "k">>
            /\ AttrValue(doc, <<"d">>) =
                  PathChars(getSquirclePath3(genArgs.width, genArgs.height, genArgs.radius))
            /\ ZeroDim => AttrValue(doc, <<"d">>) = << >>

C13_Witness ==
    /\ Returned("svg")
    /\ ~ZeroDim
    /\ genArgs.width # genArgs.height
    /\ genArgs.width % (2 * Unit) # 0
    /\ genArgs.radius > HalfShortSide
    /\ Len(AttrValue(genOut["svg"], <<"d">>)) > 0

\* C14: getSquircleDataUri(w, h, r) is "data:image/svg+xml," followed by a
\* payload made of unreserved characters and %XX escapes only (no base64
\* marker), and decodeURIComponent of the payload is getSquircleSVG(w, h, r).
C14_DataUriDecodesToSvg ==
    Returned("dataUri") =>
        \E uri \in {genOut["dataUri"]} :
        \E payload \in {SubSeq(uri, Len(DataUriPrefix) + 1, Len(uri))} :
            /\ SubSeq(uri, 1, Len(DataUriPrefix)) = DataUriPrefix
            /\ Occurrences(uri, <<";", "b", "a", "s", "e", "6", "4">>) = {}
            /\ \A i \in 1..Len(payload) : payload[i] \in Unreserved \cup {"%"}
            /\ decodeURIComponent(payload) =
                  Returns(getSquircleSVG(genArgs.width, genArgs.height, genArgs.radius))

C14_Witness ==
    /\ Returned("dataUri") /\ Returned("svg")
    /\ ~ZeroDim
    /\ genArgs.radius > 0
    /\ Len(genOut["dataUri"]) > Len(DataUriPrefix) + Len(genOut["svg"])
    /\ SubSeq(genOut["dataUri"], Len(DataUriPrefix) + 1, Len(DataUriPrefix) + 6)
          = <<"%", "3", "C", "s", "v", "g">>

(***************************************************************************)
(* A caller that asks for the contour of two surfaces with one radius.     *)
(***************************************************************************)
PositiveDims == 1..MaxDim

PairInit ==
    /\ BinderIdle
    /\ genArgs \in [width : {Px(n) : n \in PositiveDims}, height : {Px(n) : n \in PositiveDims},
                     width2 : {Px(n) : n \in PositiveDims}, height2 : {Px(n) : n \in PositiveDims},
                     radius : {Px(n) : n \in Radii}, radius2 : {0}]
    /\ genOut = [c \in {} |-> << >>]
    /\ table = squircleBezierApproximation

\* getSquirclePath(width, height, radius)
CallFirstSize ==
    /\ ~Returned("size1")
    /\ Keep("size1", getSquirclePath3(genArgs.width, genArgs.height, genArgs.radius))
    /\ table' = TableAfter(table)
    /\ UNCHANGED genArgs
    /\ UNCHANGED binderVars

\* getSquirclePath(width2, height2, radius)
CallSecondSize ==
    /\ ~Returned("size2")
    /\ Keep("size2", getSquirclePath3(genArgs.width2, genArgs.height2, genArgs.radius))
    /\ table' = TableAfter(table)
    /\ UNCHANGED genArgs
    /\ UNCHANGED binderVars

PairNext == CallFirstSize \/ CallSecondSize

SpecPair == PairInit /\ [][PairNext]_vars

\* C15: for positive sizes and one radius, two surfaces that differ in width
\* or in height get different path strings.
C15_DimensionsChangeThePath ==
    (/\ Returned("size1") /\ Returned("size2")
     /\ <<genArgs.width, genArgs.height>> # <<genArgs.width2, genArgs.height2>>) =>
        /\ genOut["size1"] # genOut["size2"]
        /\ PathChars(genOut["size1"]) # PathChars(genOut["size2"])

C15_Witness ==
    /\ Returned("size1") /\ Returned("size2")
    /\ genArgs.width = genArgs.width2
    /\ genArgs.height > genArgs.width
    /\ genArgs.height2 > genArgs.height
    /\ genArgs.radius > genArgs.width \div 2
    /\ Len(genOut["size1"]) = Len(genOut["size2"])

(***************************************************************************)
(* A caller that repeats a call of getSquirclePath after other calls of    *)
(* the module.  passes counts the calls made since the first one.          *)
(***************************************************************************)
SeqInit ==
    /\ BinderIdle
    /\ genArgs \in [width : {Px(n) : n \in Dims}, height : {Px(n) : n \in Dims},
                     width2 : {Px(MaxDim)}, height2 : {Px(1)},
                     radius : {Px(n) : n \in Radii}, radius2 : {Px(MaxRadius)}]
    /\ genOut = [c \in {} |-> << >>]
    /\ table = squircleBezierApproximation

SeqIdle == UNCHANGED <<genArgs, kind, phase, env, host, opts, b, threw>>

\* one call of the module whose result is kept under the name call
Called(call, value) ==
    /\ ~Returned(call)
    /\ Keep(call, value)
    /\ table' = TableAfter(table)
    /\ lastOp' = call
    /\ SeqIdle

\* getSquirclePath(width, height, radius), for the first time
CallFirst ==
    /\ Called("first", getSquirclePath3(genArgs.width, genArgs.height, genArgs.radius))
    /\ passes' = 0

CountCall == passes' = IF Returned("first") THEN passes + 1 ELSE passes

\* getSquirclePath({ width: width2, height: height2, radius: radius2 })
CallOther ==
    /\ Called("other", getSquirclePathOptions(
            [width |-> genArgs.width2, height |-> genArgs.height2, radius |-> genArgs.radius2]))
    /\ CountCall

\* getSquircleSVG(width2, height2, radius2)
CallOtherSVG ==
    /\ Called("svg", getSquircleSVG(genArgs.width2, genArgs.height2, genArgs.radius2))
    /\ CountCall

\* getSquircleDataUri(width, height, radius2)
CallOtherDataUri ==
    /\ Called("dataUri", getSquircleDataUri(genArgs.width, genArgs.height, genArgs.radius2))
    /\ CountCall

\* getSquirclePath(width, height, radius), again
CallAgain ==
    /\ Returned("first")
    /\ Called("again", getSquirclePath3(genArgs.width, genArgs.height, genArgs.radius))
    /\ CountCall

SeqNext == CallFirst \/ CallOther \/ CallOtherSVG \/ CallOtherDataUri \/ CallAgain

SpecSeq == SeqInit /\ [][SeqNext]_vars

Viewports ==
    {DEFAULT_MOBILE_BREAKPOINT - 1, DEFAULT_MOBILE_BREAKPOINT, DEFAULT_MOBILE_BREAKPOINT + 1}

\* only the hook reads innerWidth; the other binders see one viewport width
ViewportsOf(k) == IF k = "hook" THEN Viewports ELSE {DEFAULT_MOBILE_BREAKPOINT + 1}

Envs(k) ==
    [window : {TRUE}, CSS : {"true", "false"}, ResizeObserver : BOOLEAN,
     innerWidth : ViewportsOf(k)]

DomOptionSets ==
    {[radius |-> r] : r \in BinderRadii}
    \cup [radius : BinderRadii, borderWidth : BorderWidths, borderColor : {"#3b82f6"}]

DomInit ==
    /\ kind = "dom"
    /\ phase = "idle"
    /\ env \in Envs("dom")
    /\ host \in {NewHost(size[1], size[2]) : size \in Surfaces(kind)}
    /\ opts \in DomOptionSets
    /\ b = NoBinding
    /\ lastOp = "init"
    /\ passes = 0
    /\ threw = FALSE

\* the surface is laid out at a new size
Layout ==
    /\ kind \in {"dom", "hook"} \/ (kind = "wc" /\ phase = "connected")
    /\ \E size \in Surfaces(kind) :
          /\ size # <<host.offsetWidth, host.offsetHeight>>
          /\ host' = Resized(host, size)
    /\ lastOp' = "layout"
    /\ passes' = 0
    /\ UNCHANGED <<kind, phase, env, opts, b, threw, genVars>>

\* CSS.supports would answer differently from now on
CapabilityChanges ==
    /\ kind \in {"dom", "wc", "hook"}
    /\ env' = [env EXCEPT !.CSS = IF @ = "true" THEN "false" ELSE "true"]
    /\ UNCHANGED <<kind, phase, host, opts, b, lastOp, passes, threw, genVars>>

\* the closure state at the start of applySquircle
DomFirst(e) ==
    [isSupported |-> supportsClipPath(e), svgOverlay |-> Null,
     observer |-> "none", listening |-> FALSE]

Registered(upd, e, n) ==
    [host |-> upd.host, b |-> DomRegister(upd.b, e), applied |-> upd.applied, passes |-> n]

\* applySquircle(element, options): [host, b, applied, passes]
ApplyNoInitialUpdate(h, options, e) == Registered(Skipped(h, DomFirst(e)), e, 0)

applySquircle(h, options, e) ==
    Registered(DomUpdateStyles(h, DomFirst(e), DomOptions(options), e), e, 1)

\* the step takes over what a handler returned
Commit(res) ==
    /\ host' = res.host
    /\ b' = res.b

CommitBind(res) ==
    /\ Commit(res)
    /\ passes' = res.passes

CommitTeardown(res) ==
    /\ host' = res.host
    /\ b' = res.b
    /\ threw' = (threw \/ res.threw)

DomBind ==
    /\ kind = "dom" /\ phase = "idle"
    /\ \E res \in {applySquircle(host, opts, env)} : CommitBind(res)
    /\ phase' = "bound"
    /\ lastOp' = "bind"
    /\ UNCHANGED <<kind, env, opts, threw, genVars>>

\* the ResizeObserver callback: new ResizeObserver(updateStyles)
DomObserved ==
    /\ kind = "dom" /\ b.observer = "observing"
    /\ \E res \in {DomUpdateStyles(host, b, DomOptions(opts), env)} : Commit(res)
    /\ passes' = 1
    /\ lastOp' = "observed"
    /\ UNCHANGED <<kind, phase, env, opts, threw, genVars>>

\* a window resize event reaches the registered listener
DomWindowResize ==
    /\ kind = "dom" /\ b.listening
    /\ \E iw \in ViewportsOf(kind) : env' = [env EXCEPT !.innerWidth = iw]
    /\ \E res \in {DomUpdateStyles(host, b, DomOptions(opts), env')} : Commit(res)
    /\ passes' = 1
    /\ lastOp' = "resize"
    /\ UNCHANGED <<kind, phase, opts, threw, genVars>>

\* the caller runs the returned cleanup function, for the first time or again
DomTeardown ==
    /\ kind = "dom" /\ phase \in {"bound", "cleaned"}
    /\ \E res \in {DomCleanup(host, b)} : CommitTeardown(res)
    /\ phase' = "cleaned"
    /\ lastOp' = IF phase = "cleaned" THEN "cleanupAgain" ELSE "cleanup"
    /\ passes' = 0
    /\ UNCHANGED <<kind, env, opts, genVars>>

(***************************************************************************)
(* The custom element.  An element that is not connected has no layout    *)
(* box, so its offsetWidth and offsetHeight are 0.                         *)
(***************************************************************************)
RadiusAttrs == {NullAttr, ToString(1)}

BorderWidthAttrs == {NullAttr, ToString(MaxBorder)}

BorderColorAttrs == {NullAttr, "#3b82f6"}

AttrValues(name) ==
    CASE name = "radius" -> RadiusAttrs
      [] name = "border-width" -> BorderWidthAttrs
      [] name = "border-color" -> BorderColorAttrs

observedAttributes == {"radius", "border-width", "border-color"}

WcAttrSets == {a \in [observedAttributes -> RadiusAttrs \cup BorderWidthAttrs \cup BorderColorAttrs] :
                  \A name \in observedAttributes : a[name] \in AttrValues(name)}

\* constructor()
WcConstructed(e) ==
    [isSupported |-> supportsClipPath(e), svgOverlay |-> Null,
     observer |-> "none", listening |-> FALSE]

WcInit ==
    /\ kind = "wc"
    /\ phase = "created"
    /\ env \in Envs("wc")
    /\ host = NewHost(0, 0)
    /\ opts \in WcAttrSets
    /\ b = WcConstructed(env)
    /\ lastOp = "init"
    /\ passes = 0
    /\ threw = FALSE

CommitWc(res) ==
    /\ host' = res.host
    /\ b' = res.b
    /\ passes' = res.passes
    /\ threw' = (threw \/ res.threw)

\* the element is inserted into a document and laid out
WcConnect ==
    /\ kind = "wc" /\ phase \in {"created", "disconnected"}
    /\ \E size \in Surfaces(kind) :
          \E res \in {connectedCallback(Resized(host, size), b, opts, env)} : CommitWc(res)
    /\ phase' = "connected"
    /\ lastOp' = "bind"
    /\ UNCHANGED <<kind, env, opts, genVars>>

\* the element is removed from its document
WcDisconnect ==
    /\ kind = "wc" /\ phase = "connected"
    /\ b' = disconnectedCallback(b)
    /\ host' = [host EXCEPT !.offsetWidth = 0, !.offsetHeight = 0]
    /\ phase' = "disconnected"
    /\ lastOp' = "cleanup"
    /\ passes' = 0
    /\ UNCHANGED <<kind, env, opts, threw, genVars>>

\* the ResizeObserver callback: () => this.updateSquircle()
WcObserved ==
    /\ kind = "wc" /\ b.observer = "observing"
    /\ \E res \in {WcPass(updateSquircle(host, b, opts, env))} : CommitWc(res)
    /\ lastOp' = "observed"
    /\ UNCHANGED <<kind, phase, env, opts, genVars>>

\* a window resize event reaches handleResize
WcWindowResize ==
    /\ kind = "wc" /\ b.listening
    /\ \E iw \in ViewportsOf(kind) : env' = [env EXCEPT !.innerWidth = iw]
    /\ \E res \in {WcPass(updateSquircle(host, b, opts, env'))} : CommitWc(res)
    /\ lastOp' = "resize"
    /\ UNCHANGED <<kind, phase, opts, genVars>>

\* setAttribute / removeAttribute on an observed attribute, in any phase
WcAttributeChanged ==
    /\ kind = "wc"
    /\ \E name \in observedAttributes : \E v \in AttrValues(name) :
          /\ opts' = [opts EXCEPT ![name] = v]
          /\ \E res \in {attributeChangedCallback(host, b, opts', env, opts[name], v)} :
                CommitWc(res)
    /\ lastOp' = "attribute"
    /\ UNCHANGED <<kind, phase, env, genVars>>

(***************************************************************************)
(* A component that uses the hook and spreads the returned style on the    *)
(* surface.                                                                *)
(***************************************************************************)
\* the effect's dependency list [radius, mobileBreakpoint] compares unequal
DepsChanged(o1, o2) ==
    o1.radius # o2.radius \/ o1.mobileBreakpoint # o2.mobileBreakpoint

HookPropSets ==
    {[fresh |-> FALSE],
     [radius |-> Fixed(Px(1)), fresh |-> FALSE],
     [radius |-> Responsive(Px(1), Px(MaxRadius)), fresh |-> TRUE],
     [radius |-> Responsive(Px(1), Px(MaxRadius)),
      mobileBreakpoint |-> DEFAULT_MOBILE_BREAKPOINT - 1, fresh |-> FALSE]}

HookInit ==
    /\ kind = "hook"
    /\ phase = "idle"
    /\ env \in Envs("hook")
    /\ host \in {NewHost(size[1], size[2]) : size \in Surfaces(kind)}
    /\ opts \in HookPropSets
    /\ b = HookFirst(HookOptions(opts), env, FALSE)
    /\ lastOp = "init"
    /\ passes = 0
    /\ threw = FALSE

\* the step takes over the hook's state and what Squircle renders from it
CommitSquircle(res, props) ==
    /\ b' = res.b
    /\ host' = SquircleRender(host, res.b, SquircleProps(props))
    /\ passes' = res.passes

CommitHook(res) == CommitSquircle(res, opts)

\* the component mounts: first render, commit, layout effect
HookMount ==
    /\ kind = "hook" /\ phase = "idle"
    /\ \E ref \in BOOLEAN :
          \E res \in {HookMounted(host, HookFirst(HookOptions(opts), env, ref),
                                  HookOptions(opts), env)} : CommitHook(res)
    /\ phase' = "bound"
    /\ lastOp' = "bind"
    /\ UNCHANGED <<kind, env, opts, threw, genVars>>

\* the mount effect: setIsHydrated(true), and the render it causes
HookHydrate ==
    /\ kind = "hook" /\ phase = "bound" /\ ~b.isHydrated
    /\ \E res \in {HookRerender(host, b,
                                [b |-> [b EXCEPT !.isHydrated = TRUE], applied |-> FALSE,
                                 passes |-> 0],
                                HookOptions(opts), env)} : CommitHook(res)
    /\ lastOp' = "hydrate"
    /\ UNCHANGED <<kind, phase, env, opts, threw, genVars>>

\* the ResizeObserver callback: new ResizeObserver(updatePath)
HookObserved ==
    /\ kind = "hook" /\ b.observer = "observing"
    /\ \E res \in {HookNotified(host, b, HookOptions(opts), env)} : CommitHook(res)
    /\ lastOp' = "observed"
    /\ UNCHANGED <<kind, phase, env, opts, threw, genVars>>

\* the window gets another width: updatePath runs if it is registered
HookWindowResize ==
    /\ kind = "hook"
    /\ \E iw \in ViewportsOf(kind) : env' = [env EXCEPT !.innerWidth = iw]
    /\ IF b.listening
       THEN /\ \E res \in {HookNotified(host, b, HookOptions(opts), env')} : CommitHook(res)
            /\ lastOp' = "resize"
       ELSE /\ UNCHANGED <<host, b>>
            /\ passes' = 0
            /\ lastOp' = "layout"
    /\ UNCHANGED <<kind, phase, opts, threw, genVars>>

\* the parent renders the component with another radius or breakpoint: the
\* effect is cleaned up and runs again with the new closure
HookPropsChange ==
    /\ kind = "hook" /\ phase = "bound"
    /\ \E p \in HookPropSets :
          /\ DepsChanged(HookOptions(opts), HookOptions(p))
          /\ opts' = p
          /\ \E res \in {HookMounted(host, HookCleanup(b), HookOptions(p), env)} :
                CommitSquircle(res, p)
    /\ lastOp' = "props"
    /\ UNCHANGED <<kind, phase, env, threw, genVars>>

\* the component unmounts: the effect's cleanup runs
HookUnmount ==
    /\ kind = "hook" /\ phase = "bound"
    /\ b' = HookCleanup(b)
    /\ phase' = "cleaned"
    /\ lastOp' = "cleanup"
    /\ passes' = 0
    /\ UNCHANGED <<kind, env, host, opts, threw, genVars>>

\* the parent renders Squircle with another borderWidth or borderColor; a
\* radius object built anew on every render makes the layout effect run again
SquircleReRendered(h, s, o, e) ==
    IF o.fresh /\ o.radius.t = "object"
    THEN HookMounted(h, HookCleanup(s), o, e)
    ELSE [b |-> s, applied |-> FALSE, passes |-> 0]

SquirclePropSets ==
    {[radius |-> Fixed(Px(1)), fresh |-> FALSE],
     [radius |-> Fixed(Px(1)), fresh |-> FALSE,
      borderWidth |-> Px(MaxBorder), borderColor |-> "#3b82f6"],
     [radius |-> Responsive(Px(1), Px(MaxRadius)), fresh |-> TRUE],
     [radius |-> Responsive(Px(1), Px(MaxRadius)), fresh |-> TRUE,
      borderWidth |-> Px(MaxBorder), borderColor |-> "#3b82f6"]}

SquircleInit ==
    /\ kind = "hook"
    /\ phase = "idle"
    /\ env \in Envs("hook")
    /\ host \in {NewHost(size[1], size[2]) : size \in Surfaces(kind)}
    /\ opts \in SquirclePropSets
    /\ b = HookFirst(HookOptions(opts), env, FALSE)
    /\ lastOp = "init"
    /\ passes = 0
    /\ threw = FALSE

SquircleBorderChange ==
    /\ kind = "hook" /\ phase = "bound"
    /\ \E p \in SquirclePropSets :
          /\ ~DepsChanged(HookOptions(opts), HookOptions(p))
          /\ SquircleProps(p) # SquircleProps(opts)
          /\ opts' = p
          /\ \E res \in {SquircleReRendered(host, b, HookOptions(p), env)} :
                CommitSquircle(res, p)
    /\ lastOp' = "border"
    /\ UNCHANGED <<kind, phase, env, threw, genVars>>

Init == GenIdle /\ (DomInit \/ WcInit \/ HookInit)

Next ==
    \/ Layout
    \/ CapabilityChanges
    \/ DomBind
    \/ DomObserved
    \/ DomWindowResize
    \/ DomTeardown
    \/ WcConnect
    \/ WcDisconnect
    \/ WcObserved
    \/ WcWindowResize
    \/ WcAttributeChanged
    \/ HookMount
    \/ HookHydrate
    \/ HookObserved
    \/ HookWindowResize
    \/ HookPropsChange
    \/ HookUnmount

Spec == Init /\ [][Next]_vars

\* the binders, the surface of the hook being a Squircle that can have a border
BorderInit == GenIdle /\ (DomInit \/ WcInit \/ SquircleInit)

BorderNext ==
    \/ Layout
    \/ CapabilityChanges
    \/ DomBind
    \/ DomObserved
    \/ DomWindowResize
    \/ DomTeardown
    \/ WcConnect
    \/ WcDisconnect
    \/ WcObserved
    \/ WcWindowResize
    \/ WcAttributeChanged
    \/ HookMount
    \/ HookHydrate
    \/ HookObserved
    \/ HookWindowResize
    \/ SquircleBorderChange
    \/ HookUnmount

SpecBorder == BorderInit /\ [][BorderNext]_vars


(***************************************************************************)
(* Claims about the binders, checked under Spec.                           *)
(***************************************************************************)
\* the surface has a width and a height
NonZero == host.offsetWidth # 0 /\ host.offsetHeight # 0

\* the last step ran the synchronization routine, the run got past its
\* early returns, and the surface has not been laid out anew since
PassApplied == passes >= 1 /\ NonZero /\ (kind = "hook" => b.ref)

\* the radius the vanilla binder and the custom element were given
BoundRadius == IF kind = "wc" THEN WcRadius(opts) ELSE DomOptions(opts).radius

\* the teardown of the binding has run
Torn ==
    \/ kind = "dom" /\ phase = "cleaned"
    \/ kind = "wc" /\ phase = "disconnected"
    \/ kind = "hook" /\ phase = "cleaned"

\* C1: with the capability query answering true at bind, every completed
\* synchronization pass of applySquircle and of the custom element on a
\* surface with a width and a height leaves clip-path and -webkit-clip-path
\* both equal to path('P'), P = getSquirclePath(width, height, radius).
C1_PrecisePassSetsBothClipPaths ==
    (kind \in {"dom", "wc"} /\ b.isSupported /\ PassApplied) =>
        /\ host.style.clipPath =
              PathValue(getSquirclePath3(host.offsetWidth, host.offsetHeight, BoundRadius))
        /\ host.style.WebkitClipPath =
              PathValue(getSquirclePath3(host.offsetWidth, host.offsetHeight, BoundRadius))

C1_Witness ==
    /\ kind = "dom" /\ b.isSupported /\ PassApplied
    /\ lastOp = "observed"
    /\ host.offsetWidth = Px(MaxSize \div 2)
    /\ BoundRadius = Px(MaxRadius)
    /\ host.style.clipPath.kind = "path"

\* C2: when the capability query answered false at bind, the binding stays in
\* fallback mode: no clip-path and no -webkit-clip-path is ever set on the
\* surface, whatever the query would answer later, and after every completed
\* pass border-radius is the radius in pixels and overflow is hidden.
C2_FallbackForItsWholeLifetime ==
    (kind \in {"dom", "wc"} /\ phase # "idle" /\ ~b.isSupported) =>
        /\ host.style.clipPath = NoValue
        /\ host.style.WebkitClipPath = NoValue
        /\ PassApplied =>
              /\ host.style.borderRadius = PxValue(BoundRadius)
              /\ host.style.overflow = Keyword("hidden")

C2_Witness ==
    /\ kind = "wc" /\ phase = "connected" /\ ~b.isSupported
    /\ supportsClipPath(env)
    /\ PassApplied
    /\ lastOp = "attribute"
    /\ host.style.borderRadius = PxValue(Px(1))

\* C3: once the teardown of a binding has run, no later step runs the
\* synchronization routine for it.
C3_NoPassAfterTeardown == Torn => passes = 0

\* C4: the cleanup function returned by applySquircle never throws, however
\* often it is called and whatever the size at bind was; once it has run the
\* observer is not observing, the window listener is removed and the overlay
\* node is not attached; a further call changes nothing.
C4_TeardownIdempotent ==
    /\ [](kind = "dom" =>
            /\ ~threw
            /\ phase = "cleaned" =>
                  /\ b.observer # "observing"
                  /\ ~b.listening
                  /\ host.children = {})
    /\ [][(kind = "dom" /\ phase = "cleaned" /\ lastOp' = "cleanupAgain") =>
              (host' = host /\ b' = b)]_vars

C4_Witness ==
    /\ kind = "dom" /\ phase = "cleaned"
    /\ lastOp = "cleanupAgain"
    /\ b.svgOverlay # Null
    /\ b.observer = "disconnected"
    /\ ~threw

\* C5: binding runs the synchronization routine exactly once, leaves a
\* ResizeObserver observing exactly if hasResizeObserver() is true, and leaves
\* the window resize listener registered in every case; every window resize
\* that reaches the listener runs the routine.
C5_BindRegistersBothChannels ==
    /\ (kind \in {"dom", "wc"} /\ lastOp = "bind") =>
          /\ passes = 1
          /\ (b.observer = "observing") = hasResizeObserver(env)
          /\ b.listening
    /\ (kind \in {"dom", "wc"} /\ lastOp = "resize") => passes = 1

\* C10: a completed pass of the hook uses the mobile radius when the viewport
\* width at that pass is at most mobileBreakpoint and the desktop radius
\* otherwise, and a single-number radius unchanged: currentRadius, the
\* contour and the returned style are those of that radius.
C10_RadiusResolvedOnEveryPass ==
    (kind = "hook" /\ PassApplied) =>
        \E r \in {HookOptions(opts).radius} : \E bp \in {HookOptions(opts).mobileBreakpoint} :
        \E used \in {IF r.t = "number" THEN r.v
                     ELSE IF env.innerWidth > bp THEN r.desktop ELSE r.mobile} :
            /\ b.currentRadius = used
            /\ b.pathData = getSquirclePath3(host.offsetWidth, host.offsetHeight, used)
            /\ IF b.isSupported
               THEN host.style.clipPath = PathValue(b.pathData)
               ELSE host.style.borderRadius = PxValue(used)

C10_Witness ==
    /\ kind = "hook" /\ PassApplied
    /\ lastOp = "resize"
    /\ HookOptions(opts).radius.t = "object"
    /\ env.innerWidth = HookOptions(opts).mobileBreakpoint
    /\ b.currentRadius = HookOptions(opts).radius.mobile
    /\ b.currentRadius # HookOptions(opts).radius.desktop

\* C11: on the attached custom element, an attributeChangedCallback for
\* radius, border-width or border-color whose new value differs from the old
\* one runs the synchronization routine once, and that pass works with the
\* new values (the radius of the clip or of border-radius, the width and the
\* colour of the border); a callback whose old and new values are equal runs
\* no pass and changes nothing.
C11_AttributeChangeTriggersOnePass ==
    [][(kind = "wc" /\ phase = "connected" /\ lastOp' = "attribute" /\ env' = env) =>
          IF opts' # opts
          THEN /\ passes' = 1
               /\ (NonZero /\ b.isSupported) =>
                     /\ host'.style.clipPath = PathValue(getSquirclePath3(
                           host.offsetWidth, host.offsetHeight, WcRadius(opts')))
                     /\ (WcBorderWidth(opts') > 0) =>
                           /\ b'.svgOverlay # Null
                           /\ host'.nodes[b'.svgOverlay] = OverlayContent(
                                 host'.style.clipPath.path, WcBorderWidth(opts'),
                                 WcBorderColor(opts'))
               /\ (NonZero /\ ~b.isSupported) =>
                     /\ host'.style.borderRadius = PxValue(WcRadius(opts'))
                     /\ (WcBorderWidth(opts') > 0) =>
                           host'.style.border = SolidBorder(WcBorderWidth(opts'),
                                                            WcBorderColor(opts'))
          ELSE passes' = 0 /\ host' = host /\ b' = b]_vars

C11_Witness ==
    /\ kind = "wc" /\ phase = "connected" /\ lastOp = "attribute"
    /\ passes = 1 /\ NonZero /\ b.isSupported /\ ~threw
    /\ opts["radius"] = ToString(1)
    /\ opts["border-color"] # NullAttr
    /\ b.svgOverlay # Null
    /\ host.nodes[b.svgOverlay].stroke = opts["border-color"]
    /\ host.style.clipPath = PathValue(getSquirclePath3(host.offsetWidth, host.offsetHeight, Px(1)))

\* the radius a pass works with: the hook resolves it against the viewport
PassRadius ==
    IF kind = "hook"
    THEN IF HookOptions(opts).radius.t = "number" THEN HookOptions(opts).radius.v
         ELSE IF env.innerWidth > HookOptions(opts).mobileBreakpoint
              THEN HookOptions(opts).radius.desktop
              ELSE HookOptions(opts).radius.mobile
    ELSE BoundRadius

\* C17: in a precise-mode binding each step is one whole handler; a step
\* whose pass reads a size with a width and a height leaves the clip equal to
\* getSquirclePath of that size and of the radius resolved in that pass, and
\* every other step (a skipped pass, a new layout, a teardown) leaves the
\* clip as it was: the clip is always that of the most recently observed
\* size with a width and a height.
C17_ClipFollowsLatestObservedSize ==
    [][(kind \in {"dom", "wc", "hook"} /\ b'.isSupported) =>
          IF PassApplied'
          THEN host'.style.clipPath =
                  PathValue(getSquirclePath3(host'.offsetWidth, host'.offsetHeight, PassRadius'))
          ELSE host'.style.clipPath = host.style.clipPath]_vars

C17_Witness ==
    /\ kind = "hook" /\ b.isSupported /\ b.isHydrated /\ PassApplied
    /\ lastOp = "observed"
    /\ host.offsetWidth = Px(MaxSize \div 2)
    /\ host.style.clipPath =
          PathValue(getSquirclePath3(Px(MaxSize \div 2), Px(MaxSize), PassRadius))

\* C18: a step whose pass reads a width of 0 or a height of 0 leaves the
\* surface's styles, the overlay node and its content, and the hook's stored
\* path and radius as they were before the pass (for the custom element's
\* connectedCallback: as render() left them; for the hook: the style of the
\* state before the pass).
C18_ZeroSizePassChangesNothing ==
    [][(kind \in {"dom", "wc", "hook"} /\ passes' >= 1 /\ ~NonZero') =>
          /\ b'.svgOverlay = b.svgOverlay
          /\ CASE kind = "hook" ->
                     /\ b'.pathData = b.pathData
                     /\ b'.currentRadius = b.currentRadius
                     /\ host'.style = HookStyle(b)
                [] kind = "wc" /\ lastOp' = "bind" ->
                     /\ host'.style = host.style
                     /\ host'.children = {}
                     /\ \A n \in DOMAIN host'.nodes : host'.nodes[n] = host.nodes[n]
                [] OTHER ->
                     /\ host'.style = host.style
                     /\ host'.children = host.children
                     /\ host'.nodes = host.nodes]_vars

C18_Witness ==
    /\ kind = "dom" /\ lastOp = "observed" /\ passes = 1
    /\ host.offsetHeight = 0 /\ host.offsetWidth # 0
    /\ host.style.clipPath.kind = "path"
    /\ b.svgOverlay # Null
    /\ host.children # {}

\* C19: the binding's mode is the answer the capability query gave when the
\* binder was created (applySquircle call, element construction, hook mount);
\* no later step changes it, and every completed pass runs in that mode,
\* whatever the query would answer at the time of the pass.
C19_ModeFixedAtBind ==
    /\ (kind \in {"wc", "hook"} => b.isSupported = supportsClipPath(env))
    /\ [][IF phase = "idle" /\ phase' = "bound"
          THEN b'.isSupported = supportsClipPath(env)
          ELSE b'.isSupported = b.isSupported]_vars
    /\ []((kind \in {"dom", "wc", "hook"} /\ PassApplied) =>
             IF b.isSupported
             THEN host.style.clipPath.kind = "path" /\ host.style.borderRadius = NoValue
             ELSE host.style.clipPath = NoValue /\ host.style.borderRadius.kind = "px")

C19_Witness ==
    /\ kind = "wc" /\ phase = "connected" /\ PassApplied
    /\ lastOp = "observed"
    /\ b.isSupported /\ ~supportsClipPath(env)
    /\ host.style.clipPath.kind = "path"

\* C20: once disconnectedCallback has run, the element's ResizeObserver is
\* not observing, its window resize listener is removed, and the overlay
\* node it created is neither in the shadow root nor kept in svgOverlay.
C20_DisconnectRemovesOverlay ==
    (kind = "wc" /\ phase = "disconnected") =>
        /\ b.observer # "observing"
        /\ ~b.listening
        /\ host.children = {}
        /\ b.svgOverlay = Null

\* the border width and colour the binding currently has
BorderWidthNow ==
    CASE kind = "dom" -> DomOptions(opts).borderWidth
      [] kind = "wc" -> WcBorderWidth(opts)
      [] OTHER -> SquircleProps(opts).borderWidth

BorderColorNow ==
    CASE kind = "dom" -> DomOptions(opts).borderColor
      [] kind = "wc" -> WcBorderColor(opts)
      [] OTHER -> SquircleProps(opts).borderColor

\* the overlay node of the binding: the node in svgOverlay, for Squircle the
\* svg element it renders
OverlayNode ==
    IF kind = "hook" THEN IF host.children = {} THEN Null ELSE 1
    ELSE b.svgOverlay

\* C21: in precise mode with borderWidth > 0, after every pass that was not
\* skipped the binding has an overlay node whose path data is the contour of
\* the surface's clip (getSquirclePath of the size and radius of that pass),
\* whose stroke width is 2 x borderWidth, and which is placed at
\* -borderWidth/2 with its path translated by borderWidth/2 in both axes; and
\* in every state of a precise binding the path data of its overlay node is
\* the contour of the clip, never that of another size, while the node is
\* attached to the surface.
C21_OverlayTracesTheClip ==
    /\ (kind \in {"dom", "wc", "hook"} /\ b.isSupported /\ BorderWidthNow > 0
            /\ PassApplied) =>
          /\ OverlayNode # Null
          /\ host.nodes[OverlayNode] =
                OverlayContent(getSquirclePath3(host.offsetWidth, host.offsetHeight,
                                                PassRadius),
                               BorderWidthNow, BorderColorNow)
          /\ host.style.clipPath = PathValue(host.nodes[OverlayNode].d)
          /\ host.nodes[OverlayNode].strokeWidth = NumberToString(2 * BorderWidthNow)
          /\ host.nodes[OverlayNode].top = PxValue(-Half(BorderWidthNow))
          /\ host.nodes[OverlayNode].left = PxValue(-Half(BorderWidthNow))
          /\ host.nodes[OverlayNode].translate = PxValue(Half(BorderWidthNow))
    /\ (kind \in {"dom", "wc", "hook"} /\ b.isSupported
            /\ OverlayNode # Null /\ HasParent(host, OverlayNode)) =>
          host.style.clipPath = PathValue(host.nodes[OverlayNode].d)

C21_Witness ==
    /\ kind = "hook" /\ b.isSupported /\ PassApplied
    /\ lastOp = "observed"
    /\ BorderWidthNow = Px(MaxBorder)
    /\ host.offsetWidth = Px(MaxSize \div 2) /\ host.offsetHeight = Px(MaxSize)
    /\ OverlayNode # Null
    /\ host.nodes[OverlayNode].d =
          getSquirclePath3(Px(MaxSize \div 2), Px(MaxSize), PassRadius)

\* C22: in precise mode, a step of the attached custom element or of Squircle
\* that changes borderWidth and completes a pass leaves no overlay on the
\* surface when the new borderWidth is 0, the removal not failing, and leaves
\* an overlay attached to the surface when the new borderWidth is > 0.
C22_OverlayFollowsBorderWidth ==
    [][(kind \in {"wc", "hook"} /\ b.isSupported /\ phase \in {"connected", "bound"}
            /\ PassApplied' /\ BorderWidthNow' # BorderWidthNow) =>
          IF BorderWidthNow' = 0
          THEN host'.children = {} /\ OverlayNode' = Null /\ ~threw'
          ELSE OverlayNode' # Null /\ HasParent(host', OverlayNode')]_vars

(***************************************************************************)
(* The contour read back from the string getSquirclePath returned: the     *)
(* numbers of its commands, as an SVG path reader takes them.              *)
(***************************************************************************)
ParseNumber(t) ==
    IF t.neg THEN -(t.int * Unit + t.frac) ELSE t.int * Unit + t.frac

\* the i-th coordinate pair of a command
PointOf(c, i) == <<ParseNumber(c.args[2 * i - 1]), ParseNumber(c.args[2 * i])>>

Contour == genOut["positional"]

\* min(radius, width / 2, height / 2)
EffectiveRadius ==
    IF genArgs.radius <= HalfShortSide THEN genArgs.radius ELSE HalfShortSide

\* the corners in clockwise order: 0 top-right, 1 bottom-right, 2 bottom-left,
\* 3 top-left; the line-to of corner k is command 2 + 4k, its curves follow
CornerLine(k) == Contour[2 + 4 * k]

CornerCurve(k, j) == Contour[2 + 4 * k + j]

\* the part of the rectangle a corner's arc lies in
InCornerBox(k, p) ==
    /\ IF k \in {0, 1}
       THEN genArgs.width - EffectiveRadius <= p[1] /\ p[1] <= genArgs.width
       ELSE 0 <= p[1] /\ p[1] <= EffectiveRadius
    /\ IF k \in {0, 3}
       THEN 0 <= p[2] /\ p[2] <= EffectiveRadius
       ELSE genArgs.height - EffectiveRadius <= p[2] /\ p[2] <= genArgs.height

\* C23: for width, height > 0 the returned contour is M, then four times
\* (L, C, C, C), then Z: 18 commands; the move-to is on the top edge, and the
\* four groups lie, in this order, in the top-right, bottom-right,
\* bottom-left and top-left corner of the rectangle.
C23_CommandsAndCornerOrder ==
    (Returned("positional") /\ ~ZeroDim) =>
        /\ [i \in 1..Len(Contour) |-> Contour[i].cmd] =
              <<"M", "L", "C", "C", "C", "L", "C", "C", "C",
                "L", "C", "C", "C", "L", "C", "C", "C", "Z">>
        /\ PointOf(Contour[1], 1)[2] = 0
        /\ \A k \in 0..3 :
              /\ InCornerBox(k, PointOf(CornerLine(k), 1))
              /\ \A j \in 1..3 : \A i \in 1..3 : InCornerBox(k, PointOf(CornerCurve(k, j), i))

C23_Witness ==
    /\ Returned("positional")
    /\ genArgs.width = Px(MaxDim) /\ genArgs.height = Px(1)
    /\ genArgs.radius = Px(MaxRadius)
    /\ Len(Contour) = 18
    /\ PointOf(CornerCurve(1, 3), 3) = <<Px(MaxDim) - Half(Px(1)), Px(1)>>

\* C24: for width, height > 0 the third curve of the top-right corner ends
\* at (w, r), that of the bottom-right corner at (w - r, h), that of the
\* bottom-left corner at (0, h - r), each on the edge the next line-to runs
\* along, and that of the top-left corner ends at the move-to point (r, 0);
\* the contour ends with the close command.  r = min(radius, w/2, h/2).
C24_ClosedAndContinuous ==
    (Returned("positional") /\ ~ZeroDim) =>
        /\ PointOf(Contour[1], 1) = <<EffectiveRadius, 0>>
        /\ PointOf(CornerCurve(0, 3), 3) = <<genArgs.width, EffectiveRadius>>
        /\ PointOf(CornerLine(1), 1)[1] = genArgs.width
        /\ PointOf(CornerCurve(1, 3), 3) = <<genArgs.width - EffectiveRadius, genArgs.height>>
        /\ PointOf(CornerLine(2), 1)[2] = genArgs.height
        /\ PointOf(CornerCurve(2, 3), 3) = <<0, genArgs.height - EffectiveRadius>>
        /\ PointOf(CornerLine(3), 1)[1] = 0
        /\ PointOf(CornerCurve(3, 3), 3) = PointOf(Contour[1], 1)
        /\ Contour[Len(Contour)] = ClosePath

C24_Witness ==
    /\ Returned("positional")
    /\ genArgs.width = Px(MaxDim) /\ genArgs.height = Px(MaxDim - 1)
    /\ genArgs.radius = Px(1)
    /\ PointOf(CornerCurve(2, 3), 3) = <<0, Px(MaxDim - 2)>>
    /\ PointOf(CornerCurve(3, 3), 3) = <<Px(1), 0>>

\* the point getSquirclePath computes for entry t of the table in a corner
\* anchored at the target of its line-to: rotBy90 by the index, then vecMul
\* by the effective radius, then vecAdd to the anchor
CornerPoint(k, index, t) ==
    vecAdd(PointOf(CornerLine(k), 1), vecMul(rotBy90(t, index), EffectiveRadius))

\* every point of corner k is the table's entry rotated by the given index
CornerUsesIndex(k, index) ==
    \A j \in 1..3 : \A i \in 1..3 :
        PointOf(CornerCurve(k, j), i) = CornerPoint(k, index, squircleBezierApproximation[j][i])

RECURSIVE QuarterTurns(_, _)
QuarterTurns(v, k) == IF k = 0 THEN v ELSE QuarterTurns(<<-v[2], v[1]>>, k - 1)

\* a point of corner k relative to the corner's anchor
RelativePoint(k, j, i) ==
    <<PointOf(CornerCurve(k, j), i)[1] - PointOf(CornerLine(k), 1)[1],
      PointOf(CornerCurve(k, j), i)[2] - PointOf(CornerLine(k), 1)[2]>>

\* C26: for width, height > 0 the nine curve points of the bottom-right,
\* bottom-left and top-left corner, relative to the corner's anchor, are the
\* nine points of the top-right corner relative to its anchor turned by one,
\* two and three quarter turns, with no difference in any coordinate.
C26_CornersAreQuarterTurnsOfTopRight ==
    (Returned("positional") /\ ~ZeroDim) =>
        \A k \in 1..3 : \A j \in 1..3 : \A i \in 1..3 :
            RelativePoint(k, j, i) = QuarterTurns(RelativePoint(0, j, i), k)

C26_Witness ==
    /\ Returned("positional") /\ ~ZeroDim
    /\ genArgs.width # genArgs.height
    /\ EffectiveRadius = Half(Px(1))
    /\ RelativePoint(0, 1, 3) = <<Mul(Dec(619), Half(Px(1))), Mul(Dec(39), Half(Px(1)))>>
    /\ RelativePoint(2, 1, 3) = <<-Mul(Dec(619), Half(Px(1))), -Mul(Dec(39), Half(Px(1)))>>

\* C27: for width, height > 0 every coordinate pair of the contour (the
\* move-to point, the line-to points, the control and end points of the
\* curves) lies in [0, width] x [0, height].
C27_ContourInsideTheRectangle ==
    (Returned("positional") /\ ~ZeroDim) =>
        \A n \in 1..Len(Contour) : \A i \in 1..(Len(Contour[n].args) \div 2) :
            /\ 0 <= PointOf(Contour[n], i)[1] /\ PointOf(Contour[n], i)[1] <= genArgs.width
            /\ 0 <= PointOf(Contour[n], i)[2] /\ PointOf(Contour[n], i)[2] <= genArgs.height

C27_Witness ==
    /\ Returned("positional")
    /\ genArgs.width = Px(1) /\ genArgs.height = Px(MaxDim)
    /\ genArgs.radius = Px(MaxRadius)
    /\ PointOf(CornerCurve(0, 3), 3) = <<Px(1), Half(Px(1))>>
    /\ PointOf(Contour[1], 1) = <<Half(Px(1)), 0>>

\* C28: in every state of the custom element a svgOverlay that is not null
\* is a child of the shadow root, no handler has failed in removeChild, and
\* after a completed precise pass of the connected element with
\* border-width > 0 the overlay is in the shadow root.
C28_OverlayReferenceIsAChild ==
    kind = "wc" =>
        /\ (b.svgOverlay # Null => HasParent(host, b.svgOverlay))
        /\ ~threw
        /\ (phase = "connected" /\ PassApplied /\ b.isSupported /\ WcBorderWidth(opts) > 0) =>
              host.children # {}

\* C29: the surface never holds more than one overlay node, and a node it
\* holds is the one the binding refers to; the binding gets its overlay node
\* in a step whose pass was not skipped, a completed precise pass with
\* borderWidth > 0 leaves the binding with an overlay node, and a step that
\* starts and ends with an overlay node ends with the same node.
C29_AtMostOneOverlayNode ==
    /\ [](kind \in {"dom", "wc", "hook"} =>
              /\ Cardinality(host.children) <= 1
              /\ host.children \subseteq {OverlayNode}
              /\ (b.isSupported /\ PassApplied /\ BorderWidthNow > 0) => OverlayNode # Null)
    /\ [][(kind \in {"dom", "wc", "hook"}) =>
              /\ (OverlayNode = Null /\ OverlayNode' # Null) =>
                    (PassApplied' \/ lastOp' = "border")
              /\ (OverlayNode # Null /\ OverlayNode' # Null) => OverlayNode' = OverlayNode]_vars

C29_Witness ==
    /\ kind = "dom" /\ b.isSupported /\ PassApplied
    /\ lastOp = "resize"
    /\ BorderWidthNow > 0
    /\ host.children = {b.svgOverlay}
    /\ host.offsetWidth = Px(MaxSize)
    /\ host.nodes[b.svgOverlay].d =
          getSquirclePath3(Px(MaxSize), Px(MaxSize), BoundRadius)

\* C30: after every pass that was not skipped, a precise binding has its
\* overlay on the surface exactly if the current borderWidth is > 0, and a
\* fallback binding has the solid CSS border on the surface exactly if the
\* current borderWidth is > 0 and has no overlay node.
C30_BorderShownIffRequested ==
    (kind \in {"dom", "wc", "hook"} /\ PassApplied) =>
        IF b.isSupported
        THEN (host.children # {}) = (BorderWidthNow > 0)
        ELSE /\ (host.style.border # NoValue) = (BorderWidthNow > 0)
             /\ host.children = {}
             /\ OverlayNode = Null

\* C31: a useSquircle instance has at most one resize listener on window and
\* at most one ResizeObserver observing its surface, those of the latest run
\* of its layout effect; a step that runs the effect again because radius
\* or mobileBreakpoint changed ends with exactly the listener, and the
\* observer if there is one, of the new run, and after unmount none is left.
C31_OneListenerOneObserver ==
    kind = "hook" =>
        /\ b.listeners = (IF b.listening THEN 1 ELSE 0)
        /\ b.observers = (IF b.observer = "observing" THEN 1 ELSE 0)
        /\ (lastOp = "props" => b.listeners = 1)
        /\ (phase \in {"idle", "cleaned"} => b.listeners = 0 /\ b.observers = 0)

C31_Witness ==
    /\ kind = "hook" /\ phase = "bound" /\ lastOp = "props"
    /\ passes >= 2
    /\ b.listeners = 1 /\ b.observers = 1

\* a style object in the precise form: both clip properties, the same path,
\* no border-radius and no overflow
ClipForm(st, pathData) ==
    /\ st.clipPath = PathValue(pathData)
    /\ st.WebkitClipPath = PathValue(pathData)
    /\ st.borderRadius = NoValue
    /\ st.overflow = NoValue

\* a style object in the fallback form: border-radius and overflow hidden,
\* no clip property
RadiusForm(st, radius) ==
    /\ st.borderRadius = PxValue(radius)
    /\ st.overflow = Keyword("hidden")
    /\ st.clipPath = NoValue
    /\ st.WebkitClipPath = NoValue

\* C32: in every state of the hook the style it returns has the clip form,
\* with the stored path, exactly if isSupported holds and the stored path is
\* not empty, and has the border-radius form with currentRadius otherwise;
\* what Squircle has rendered carries that style, has the stroke overlay only
\* with the clip form and the CSS border only with the border-radius form.
\* The object createSquircleStyles returns for the surface of the vanilla
\* binder has one of the two forms in the same way.
C32_StyleHasExactlyOneForm ==
    /\ kind = "hook" =>
          /\ IF b.isSupported /\ b.pathData # << >>
             THEN ClipForm(HookStyle(b), b.pathData)
             ELSE RadiusForm(HookStyle(b), b.currentRadius)
          /\ phase = "bound" =>
                /\ [host.style EXCEPT !.border = NoValue] = HookStyle(b)
                /\ host.children # {} => ClipForm(host.style, b.pathData)
                /\ host.style.border # NoValue => RadiusForm(host.style, b.currentRadius)
                /\ ~(host.children # {} /\ host.style.border # NoValue)
    /\ kind = "dom" =>
          IF supportsClipPath(env) /\ NonZero
          THEN ClipForm(createSquircleStyles(host.offsetWidth, host.offsetHeight,
                                             DomOptions(opts), env),
                        getSquirclePath3(host.offsetWidth, host.offsetHeight,
                                         DomOptions(opts).radius))
          ELSE RadiusForm(createSquircleStyles(host.offsetWidth, host.offsetHeight,
                                               DomOptions(opts), env),
                          DomOptions(opts).radius)

C32_Witness ==
    /\ kind = "hook" /\ phase = "bound" /\ PassApplied
    /\ ~b.isSupported /\ b.pathData # << >>
    /\ BorderWidthNow > 0
    /\ host.style.border = SolidBorder(BorderWidthNow, BorderColorNow)
    /\ host.style.borderRadius = PxValue(PassRadius)
    /\ host.children = {}

(***************************************************************************)
(* The render / effect cycle of one Squircle, one render per step.         *)
(*   b      : the hook's state as the setters have left it, and the        *)
(*            registrations of the latest run of the layout effect         *)
(*   host   : the surface as the latest render committed it                *)
(*   phase  : "idle" before the mount, "pending" while a render is         *)
(*            scheduled, "quiet" when none is                              *)
(*   passes : the renders since the last event from outside the component  *)
(*            (mount, notification, render of the parent)                  *)
(***************************************************************************)
MaxRenders == 4

\* what Squircle hands to useSquircle: radius = { mobile: 30, desktop: 40 } is
\* evaluated in the parameter list, so the default is a new object per render
SquircleOptions(props) ==
    [radius |-> IF "radius" \in DOMAIN props THEN props.radius ELSE DEFAULT_RADIUS,
     mobileBreakpoint |-> IF "mobileBreakpoint" \in DOMAIN props THEN props.mobileBreakpoint
                          ELSE DEFAULT_MOBILE_BREAKPOINT,
     fresh |-> IF "radius" \in DOMAIN props THEN props.fresh ELSE TRUE]

\* the dependency list [radius, mobileBreakpoint] of a re-render with the
\* same props differs exactly if radius is an object built during the render
DepsDiffer(o) == o.fresh /\ o.radius.t = "object"

\* a setter schedules a render exactly if its value is not the current one
ScheduledOnEverySet(before, after, applied) ==
    applied \/ HookState(after) # HookState(before)

Scheduled(before, after, applied) == HookState(after) # HookState(before)

NextPhase(before, after, applied) ==
    IF Scheduled(before, after, applied) THEN "pending" ELSE "quiet"

RenderPropSets ==
    {[borderWidth |-> Px(MaxBorder), borderColor |-> "#3b82f6"],
     [radius |-> Responsive(Px(1), Px(MaxRadius)), fresh |-> TRUE],
     [radius |-> Responsive(Px(1), Px(MaxRadius)), fresh |-> FALSE],
     [radius |-> Fixed(Px(1)), fresh |-> FALSE]}

RenderInit ==
    /\ GenIdle
    /\ kind = "hook"
    /\ phase = "idle"
    /\ env \in Envs("hook")
    /\ host \in {NewHost(size[1], size[2]) : size \in Surfaces(kind)}
    /\ opts \in RenderPropSets
    /\ b = HookFirst(SquircleOptions(opts), env, FALSE)
    /\ lastOp = "init"
    /\ passes = 0
    /\ threw = FALSE

RenderIdle == UNCHANGED <<kind, opts, threw, genVars>>

\* the first render and its commit: the ref is attached, the layout effect
\* runs updatePath and registers, the mount effect calls setIsHydrated(true)
RenderMount ==
    /\ phase = "idle"
    /\ host' = SquircleRender(host, b, SquircleProps(opts))
    /\ \E upd \in {updatePath(host, [b EXCEPT !.ref = TRUE], SquircleOptions(opts), env)} :
          /\ b' = [HookRegister(upd.b, env) EXCEPT !.isHydrated = TRUE]
          /\ phase' = NextPhase(b, [upd.b EXCEPT !.isHydrated = TRUE], upd.applied)
    /\ passes' = 1
    /\ lastOp' = "bind"
    /\ env' = env
    /\ RenderIdle

\* the scheduled render and its commit: with a changed dependency list the
\* effect is cleaned up and runs again
RenderAgain ==
    /\ phase = "pending"
    /\ passes < MaxRenders
    /\ host' = SquircleRender(host, b, SquircleProps(opts))
    /\ IF DepsDiffer(SquircleOptions(opts))
       THEN \E upd \in {updatePath(host, HookCleanup(b), SquircleOptions(opts), env)} :
               /\ b' = HookRegister(upd.b, env)
               /\ phase' = NextPhase(b, upd.b, upd.applied)
       ELSE /\ b' = b
            /\ phase' = "quiet"
    /\ passes' = passes + 1
    /\ lastOp' = "render"
    /\ env' = env
    /\ RenderIdle

\* the surface or the viewport gets another size while no render is scheduled
RenderLayout ==
    /\ phase = "quiet"
    /\ \/ /\ \E size \in Surfaces(kind) :
                /\ size # <<host.offsetWidth, host.offsetHeight>>
                /\ host' = Resized(host, size)
          /\ env' = env
       \/ /\ \E iw \in ViewportsOf(kind) :
                /\ iw # env.innerWidth
                /\ env' = [env EXCEPT !.innerWidth = iw]
          /\ host' = host
    /\ lastOp' = "layout"
    /\ UNCHANGED <<b, phase, passes>>
    /\ RenderIdle

\* a notification of the ResizeObserver or of window runs updatePath
RenderNotified ==
    /\ phase = "quiet"
    /\ b.listening \/ b.observer = "observing"
    /\ \E upd \in {updatePath(host, b, SquircleOptions(opts), env)} :
          /\ b' = upd.b
          /\ phase' = NextPhase(b, upd.b, upd.applied)
    /\ passes' = 0
    /\ lastOp' = "observed"
    /\ UNCHANGED <<host, env>>
    /\ RenderIdle

\* the parent renders: a render of Squircle with the same props is scheduled
RenderParent ==
    /\ phase = "quiet"
    /\ phase' = "pending"
    /\ passes' = 0
    /\ lastOp' = "parent"
    /\ UNCHANGED <<host, env, b>>
    /\ RenderIdle

RenderNext ==
    \/ RenderMount
    \/ RenderAgain
    \/ RenderLayout
    \/ RenderNotified
    \/ RenderParent

\* React carries out a render it has scheduled: weak fairness of RenderAgain,
\* which is enabled exactly in the states its first two conjuncts describe
RenderFairness ==
    \/ []<>~(phase = "pending" /\ passes < MaxRenders)
    \/ []<><<RenderAgain>>_vars

SpecRender == RenderInit /\ [][RenderNext]_vars /\ RenderFairness

\* C33: with the surface size and the viewport width unchanged while renders
\* are scheduled, every scheduled render of a Squircle is followed by a state
\* with no render scheduled, also when its radius is an object built anew on
\* every render; at most 2 renders follow one event (the mount, which is
\* the first of them, a notification, a render of the parent), a render that
\* follows a render leaves the stored path and radius as they were, and a
\* render that leaves them as they were schedules no further one.
C33_RenderCycleReachesQuiescence ==
    /\ [](phase = "pending" => passes < 2)
    /\ [][(lastOp' = "render" /\ (lastOp \in {"bind", "render"} \/ HookState(b') = HookState(b)))
            => (HookState(b') = HookState(b) /\ phase' = "quiet")]_vars
    /\ (phase = "pending") ~> (phase = "quiet")

C33_Witness ==
    /\ phase = "quiet" /\ lastOp = "render" /\ passes = 2
    /\ "radius" \notin DOMAIN opts
    /\ DepsDiffer(SquircleOptions(opts))
    /\ b.pathData # << >>
    /\ b.listeners = 1
====
